---- MODULE Spec2Model ----
(***************************************************************************)
(* Accounting core of telegram-task-bot: rule store, rule categorizer,     *)
(* learning from user corrections, AI fallback batching, session store     *)
(* and the review/export handlers.                                         *)
(*                                                                         *)
(* Conventions: snake_case operators are the repository's functions, as    *)
(* pure functions of the data they read and write; CamelCase actions are   *)
(* one call of a public function or one handler run.  Strings that the     *)
(* code inspects character by character (descriptions, patterns) are       *)
(* sequences of one-character strings; other strings are TLA+ strings.     *)
(***************************************************************************)
EXTENDS Integers, Sequences, FiniteSets, TLC

VARIABLES
    rules,      \* table category_rules, rows in id order (id = position)
    learned,    \* ghost: ids of the rules inserted by apply_user_category
    txns,       \* in-memory Transaction objects handed to the categorizers
    api_key,    \* config.ANTHROPIC_API_KEY is set
    calls,      \* service calls issued by the last categorize_with_ai: the batches sent
    sessions,       \* table sessions, rows in rowid order
    transactions,   \* table transactions, rows in id order
    acct_session,   \* context.user_data["acct_session"], NoSession when absent
    now,            \* the clock CURRENT_TIMESTAMP reads, in seconds
    parser_in,  \* the argument handed to the PDF parser's function under study
    parser_out, \* what that function returned, None before it ran
    committed,  \* the database file, where a write can fail before its commit:
                \* what the last commit left (sessions and transactions are
                \* what the shared connection reads); None where every write
                \* commits
    last        \* ghost: the last operation and its arguments

session_vars == <<sessions, transactions, acct_session, now>>

parser_vars == <<parser_in, parser_out>>

vars == <<rules, learned, txns, api_key, calls, sessions, transactions, acct_session, now,
          parser_in, parser_out, committed, last>>

\* ------------------------------------------------------------------ bounds

MaxRules == 3
MaxMatch == 2
MaxAiTxns == 52
MaxSessions == 2
MaxTime == 1
MaxCursor == 2
MaxRows == 4
MaxDocs == 1

\* --------------------------------------------------------- values and text

None == "<None>"
Missing == "<missing>"

lower_char(c) ==
    CASE c = "A" -> "a" [] c = "B" -> "b" [] c = "T" -> "t" [] c = "V" -> "v" [] OTHER -> c

\* str.lower()
lower(s) == [i \in DOMAIN s |-> lower_char(s[i])]

\* Python's `p in d` on strings
contains(p, d) ==
    \E k \in 0..(Len(d) - Len(p)) : SubSeq(d, k + 1, k + Len(p)) = p

\* re.search(pattern, description, re.IGNORECASE) for patterns made of letters,
\* "." (any character) and "(" (an unterminated group: re.error)
re_error(pattern) == \E i \in DOMAIN pattern : pattern[i] = "("

re_search(pattern, description) ==
    \E k \in 0..(Len(description) - Len(pattern)) :
        \A i \in DOMAIN pattern :
            pattern[i] = "." \/ lower_char(pattern[i]) = lower_char(description[k + i])

Truthy(s) == s # None /\ s # ""

Cats == {"c1", "c2"}

\* default_rules.json "categories": key -> display name
CATEGORIES == [c1 |-> "Cat One", c2 |-> "Cat Two", outros |-> "Outros"]

get_category_display(key) ==
    IF key \in DOMAIN CATEGORIES THEN CATEGORIES[key] ELSE key

\* a Transaction as the extractor creates it
NewTransaction(d, row_index) ==
    [description |-> d, row_index |-> row_index,
     category |-> None, note |-> None, confidence |-> "unknown"]

\* --------------------------------------------------------------- rule store

match_rule(description, rule) ==
    LET desc_lower == lower(description)
        pattern_lower == lower(rule.pattern)
    IN  IF rule.match_type = "exact" THEN desc_lower = pattern_lower
        ELSE IF rule.match_type = "contains" THEN contains(pattern_lower, desc_lower)
        ELSE IF rule.match_type = "regex"
             THEN IF re_error(rule.pattern) THEN FALSE
                  ELSE re_search(rule.pattern, description)
        ELSE FALSE

\* the exception _match_rule ends with before the except clause: re.search raises
\* re.error on a pattern that does not compile
match_exception(description, rule) ==
    IF rule.match_type = "regex" /\ re_error(rule.pattern) THEN "re.error" ELSE "none"

\* `except re.error:` of _match_rule
except_re_error_never(exc) == FALSE

except_re_error(exc) == exc = "re.error"

\* the exception leaves _match_rule
match_raises(description, rule) ==
    LET exc == match_exception(description, rule)
    IN  exc # "none" /\ ~except_re_error(exc)

\* ORDER BY match_count DESC, id ASC
Before(r, q) ==
    r.match_count > q.match_count \/ (r.match_count = q.match_count /\ r.id <= q.id)

RECURSIVE OrderBy(_)
OrderBy(S) ==
    IF S = {} THEN <<>>
    ELSE LET b == CHOOSE r \in S : \A q \in S : Before(r, q)
         IN  <<b>> \o OrderBy(S \ {b})

get_all_rules_by_id(store) == store

get_all_rules(store) == OrderBy({store[i] : i \in DOMAIN store})

\* add_rule(pattern, category, note, match_type): an INSERT, the new row takes
\* the next id and match_count 0
add_rule_replacing(store, pattern, category, note, match_type) ==
    LET id == IF store = <<>> THEN 1 ELSE Len(store)
    IN  [i \in 1..id |->
            IF i < id THEN store[i]
            ELSE [id |-> id, pattern |-> pattern, category |-> category,
                  note_template |-> note, match_type |-> match_type, match_count |-> 0]]

add_rule(store, pattern, category, note, match_type) ==
    Append(store, [id |-> Len(store) + 1, pattern |-> pattern, category |-> category,
                   note_template |-> note, match_type |-> match_type,
                   match_count |-> 0])

increment_rule_match_all(store, rule_id) ==
    [i \in DOMAIN store |-> [store[i] EXCEPT !.match_count = @ + 1]]

increment_rule_match(store, rule_id) ==
    [i \in DOMAIN store |->
        IF store[i].id = rule_id THEN [store[i] EXCEPT !.match_count = @ + 1]
        ELSE store[i]]

\* -------------------------------------------------------- rule categorizer

\* position in `rl` of the rule the loop of categorize_transaction stops at, 0 if
\* none, -1 if _match_rule raised before a rule matched
RECURSIVE first_match_from(_, _, _)
first_match_from(description, rl, k) ==
    IF k > Len(rl) THEN 0
    ELSE IF match_raises(description, rl[k]) THEN 0 - 1
    ELSE IF match_rule(description, rl[k]) THEN k
    ELSE first_match_from(description, rl, k + 1)

first_match(description, rl) == first_match_from(description, rl, 1)

categorize_transaction_keep_category(t, rl, store) ==
    LET k == first_match(t.description, rl)
    IN  IF k > 0
        THEN [txn |-> [t EXCEPT !.category = IF @ = None THEN rl[k].category ELSE @,
                                !.note = IF @ = None THEN rl[k].note_template ELSE @,
                                !.confidence = "rule"],
              store |-> increment_rule_match(store, rl[k].id), raised |-> FALSE]
        ELSE IF k < 0 THEN [txn |-> t, store |-> store, raised |-> TRUE]
        ELSE [txn |-> [t EXCEPT !.confidence = "unknown"], store |-> store,
              raised |-> FALSE]

\* categorize_transaction(transaction, rules): the transaction and the store
\* afterwards, and whether an exception left the function
categorize_transaction(t, rl, store) ==
    LET k == first_match(t.description, rl)
    IN  IF k > 0
        THEN [txn |-> [t EXCEPT !.category = rl[k].category,
                                !.note = rl[k].note_template,
                                !.confidence = "rule"],
              store |-> increment_rule_match(store, rl[k].id), raised |-> FALSE]
        ELSE IF k < 0 THEN [txn |-> t, store |-> store, raised |-> TRUE]
        ELSE [txn |-> [t EXCEPT !.confidence = "unknown"], store |-> store,
              raised |-> FALSE]

\* categorize_batch: one get_all_rules, then categorize_transaction on each in turn
RECURSIVE categorize_loop(_, _, _, _)
categorize_loop(ts, idxs, rl, store) ==
    IF idxs = <<>> THEN [txns |-> ts, store |-> store, raised |-> FALSE]
    ELSE LET r == categorize_transaction(ts[Head(idxs)], rl, store)
         IN  IF r.raised THEN [txns |-> ts, store |-> store, raised |-> TRUE]
             ELSE categorize_loop([ts EXCEPT ![Head(idxs)] = r.txn], Tail(idxs), rl,
                                  r.store)

categorize_batch(ts, idxs, store) == categorize_loop(ts, idxs, get_all_rules(store), store)

\* ----------------------------------------------------------------- learning

already_exists_exact(store, description) ==
    \E i \in DOMAIN store : store[i].pattern = description

already_exists(store, description) ==
    \E i \in DOMAIN store : lower(store[i].pattern) = lower(description)

apply_user_category(t, category, note, save_rule, store) ==
    LET n == IF Truthy(note) THEN note ELSE get_category_display(category)
    IN  [txn |-> [t EXCEPT !.category = category, !.note = n, !.confidence = "user"],
         store |-> IF save_rule /\ t.description # <<>>
                      /\ ~already_exists(store, t.description)
                   THEN add_rule(store, t.description, category, n, "contains")
                   ELSE store]

\* -------------------------------------------------------------- AI fallback

batch_size == 25

Min(a, b) == IF a < b THEN a ELSE b

\* One entry of the parsed response: a dict with optional "index", "category" and
\* "note", or something that is no dict (shape "other": item.get raises).
Item(index_type, index, category, note) ==
    [shape |-> "dict", index_type |-> index_type, index |-> index,
     category |-> category, note |-> note]

Junk == [shape |-> "other", index_type |-> "none", index |-> 0,
         category |-> Missing, note |-> Missing]

\* the service's answer to one call: the call raised, the text is no JSON, or JSON
Response(kind, items) == [kind |-> kind, items |-> items]

\* `if idx is not None and 0 <= idx < len(transactions)` and `transactions[idx]`
\* for an integer idx: the position in the batch the entry is applied to, 0 when
\* it is applied to none (Python counts a negative subscript from the end)
entry_position_wrapping(idx, n) ==
    IF idx < n /\ 0 - n <= idx THEN (idx % n) + 1 ELSE 0

entry_position(idx, n) ==
    IF 0 <= idx /\ idx < n THEN idx + 1 ELSE 0

\* `for item in results:` of _categorize_batch; an exception ends the loop and is
\* swallowed by `except Exception`, what was assigned before it stays assigned
RECURSIVE apply_items(_, _)
apply_items(ts, items) ==
    IF items = <<>> THEN ts
    ELSE LET item == Head(items)
         IN  IF item.shape # "dict" THEN ts
             ELSE IF item.index_type = "none" THEN apply_items(ts, Tail(items))
             ELSE IF item.index_type # "int" THEN ts
             ELSE IF entry_position(item.index, Len(ts)) > 0
             THEN apply_items(
                    [ts EXCEPT ![entry_position(item.index, Len(ts))] =
                        [@ EXCEPT !.category = IF item.category = Missing THEN "outros"
                                               ELSE item.category,
                                  !.note = IF item.note = Missing THEN "" ELSE item.note,
                                  !.confidence = "ai"]],
                    Tail(items))
             ELSE apply_items(ts, Tail(items))

\* the exception classes the `try:` block of _categorize_batch can raise, all of
\* them subclasses of Exception
Exceptions == {"ValueError", "APIError", "JSONDecodeError", "AttributeError", "TypeError"}

\* The exception the item loop of _categorize_batch ends with ("none": the loop
\* runs to its end): `item.get` on an entry that is no dict, a comparison or a
\* subscript with an index that is no integer
RECURSIVE items_exception(_, _)
items_exception(ts, items) ==
    IF items = <<>> THEN "none"
    ELSE LET item == Head(items)
         IN  IF item.shape # "dict" THEN "AttributeError"
             ELSE IF item.index_type \notin {"none", "int"} THEN "TypeError"
             ELSE items_exception(ts, Tail(items))

\* The exception raised inside the `try:` block of _categorize_batch for an
\* answer of the service; without credentials _get_client raises ValueError
try_exception(ts, key, response) ==
    IF ~key THEN "ValueError"
    ELSE IF response.kind = "error" THEN "APIError"
    ELSE IF response.kind = "text" THEN "JSONDecodeError"
    ELSE items_exception(ts, response.items)

\* `except json.JSONDecodeError` and `except Exception` of _categorize_batch:
\* TRUE when one of the two clauses handles the exception
caught_json_only(exc) == exc = "JSONDecodeError"

caught(exc) == exc = "JSONDecodeError" \/ exc \in Exceptions

\* _categorize_batch(transactions, categories_text) given the service's answer:
\* the transactions after the call and whether an exception leaves the function
categorize_batch_ai(ts, response) ==
    IF response.kind = "json" THEN apply_items(ts, response.items) ELSE ts

_categorize_batch(ts, key, response) ==
    LET exc == try_exception(ts, key, response)
    IN  [txns |-> IF key THEN categorize_batch_ai(ts, response) ELSE ts,
         raised |-> exc # "none" /\ ~caught(exc)]

\* transactions[i : i + batch_size]
batch_slice_short(ts, i) == SubSeq(ts, i + 1, Min(i + batch_size - 1, Len(ts)))

batch_slice(ts, i) == SubSeq(ts, i + 1, Min(i + batch_size, Len(ts)))

\* `for i in range(0, len(transactions), batch_size)`: the transactions and the
\* calls issued (each call recorded as the row_index values of its batch);
\* oracle[k] is the service's answer to the k-th call
RECURSIVE ai_loop(_, _, _, _, _)
ai_loop(ts, i, key, oracle, issued) ==
    IF i >= Len(ts) THEN [txns |-> ts, calls |-> issued, raised |-> FALSE]
    ELSE LET batch == batch_slice(ts, i)
             out == _categorize_batch(batch, key, oracle[Len(issued) + 1])
             updated == [j \in DOMAIN ts |->
                            IF i < j /\ j <= i + Len(batch) THEN out.txns[j - i] ELSE ts[j]]
             sent == Append(issued, [j \in DOMAIN batch |-> batch[j].row_index])
         IN  IF out.raised
             THEN [txns |-> updated, calls |-> sent, raised |-> TRUE]
             ELSE ai_loop(updated, i + batch_size, key, oracle, sent)

categorize_with_ai(ts, key, oracle) ==
    IF ts = <<>> \/ ~key THEN [txns |-> ts, calls |-> <<>>, raised |-> FALSE]
    ELSE ai_loop(ts, 0, key, oracle, <<>>)

\* ------------------------------------------------------------------ inputs

\* the descriptions of the transactions a caller holds
Pools == { <<<<"a">>, <<"A">>>>,
           <<<<"a">>, <<"a", "b">>>>,
           <<<<"a", "b">>, <<"a", "b">>>>,
           <<<<>>, <<"A">>>> }

\* rules of default_rules.json, which initialize() seeds the empty table with
ContainsA == [pattern |-> <<"a">>, category |-> "c1", note |-> "", match_type |-> "contains"]
ExactAb == [pattern |-> <<"A", "b">>, category |-> "c2", note |-> "n1", match_type |-> "exact"]
RegexDotB == [pattern |-> <<".", "b">>, category |-> "c1", note |-> "n1", match_type |-> "regex"]
RegexBad == [pattern |-> <<"(", "a">>, category |-> "c2", note |-> "n1", match_type |-> "regex"]
FuzzyA == [pattern |-> <<"a">>, category |-> "c2", note |-> "n1", match_type |-> "fuzzy"]

DefaultRules ==
    { <<>>, <<ContainsA>>, <<ExactAb, ContainsA>>, <<ContainsA, ExactAb>>,
      <<RegexBad, RegexDotB>>, <<FuzzyA, ContainsA>> }

\* _seed_default_rules
RECURSIVE seed_default_rules(_, _)
seed_default_rules(store, rs) ==
    IF rs = <<>> THEN store
    ELSE seed_default_rules(
            add_rule(store, Head(rs).pattern, Head(rs).category, Head(rs).note,
                     Head(rs).match_type),
            Tail(rs))

\* what the user picks: category, note, save_rule
UserInputs ==
    { [category |-> "c1", note |-> "", save_rule |-> TRUE],
      [category |-> "c2", note |-> "n1", save_rule |-> TRUE],
      [category |-> "c2", note |-> "", save_rule |-> FALSE] }

\* answers of the service to a call on the caller's own short list
PoolResponses ==
    { Response("error", <<>>),
      Response("json", <<Item("int", 0, "c2", "n1")>>),
      Response("json", <<Item("int", 1, "c1", Missing), Junk>>) }

Responses ==
    { Response("error", <<>>),
      Response("text", <<>>),
      Response("json", <<Item("int", 0, "c2", Missing)>>),
      Response("json", <<Item("int", 1, Missing, "n1"), Junk>>),
      Response("json", <<Item("none", 0, "c1", "n1"), Item("int", 30, "c1", "n1")>>) }

\* the lists of its transactions a caller hands to a batch operation
Batches == {<<1, 2>>, <<2>>}

Pick(ts, idxs) == [k \in DOMAIN idxs |-> ts[idxs[k]]]

Put(ts, idxs, out) ==
    [j \in DOMAIN ts |->
        IF \E k \in DOMAIN idxs : idxs[k] = j
        THEN out[CHOOSE k \in DOMAIN idxs : idxs[k] = j]
        ELSE ts[j]]

\* the service's answers to the successive calls of one categorize_with_ai
Oracles(answers) == [1..(MaxAiTxns \div batch_size + 1) -> answers]

\* the session store and the handlers' memory are not part of the run
NoStore ==
    /\ sessions = <<>>
    /\ transactions = <<>>
    /\ acct_session = [id |-> 0]
    /\ now = 0
    /\ committed = None

Capped(store) == \A i \in DOMAIN store : store[i].match_count <= MaxMatch

Op(op, idxs) == [op |-> op, idxs |-> idxs, outcome |-> "done"]

\* ------------------------------------------------- categorizer: Init, actions

Init ==
    /\ rules \in {seed_default_rules(<<>>, rs) : rs \in DefaultRules}
    /\ learned = {}
    /\ txns \in {[i \in DOMAIN d |-> NewTransaction(d[i], i - 1)] : d \in Pools}
    /\ api_key = TRUE
    /\ parser_in = None /\ parser_out = None
    /\ calls = <<>>
    /\ last = Op("init", <<>>)
    /\ NoStore

\* categorize_transaction(txn) with rules=None
CategorizeTransaction(i) ==
    LET r == categorize_transaction(txns[i], get_all_rules(rules), rules)
    IN  /\ Capped(r.store)
        /\ txns' = [txns EXCEPT ![i] = r.txn]
        /\ rules' = r.store
        /\ last' = [op |-> "categorize_transaction", idxs |-> <<i>>,
                    outcome |-> IF r.raised THEN "raised" ELSE "done"]
        /\ UNCHANGED <<learned, api_key, parser_in, parser_out, committed, calls>>
        /\ UNCHANGED session_vars

CategorizeBatch(idxs) ==
    LET r == categorize_batch(txns, idxs, rules)
    IN  /\ Capped(r.store)
        /\ txns' = r.txns
        /\ rules' = r.store
        /\ last' = [op |-> "categorize_batch", idxs |-> idxs,
                    outcome |-> IF r.raised THEN "raised" ELSE "done"]
        /\ UNCHANGED <<learned, api_key, parser_in, parser_out, committed, calls>>
        /\ UNCHANGED session_vars

ApplyUserCategory(i, u) ==
    LET r == apply_user_category(txns[i], u.category, u.note, u.save_rule, rules)
    IN  /\ Len(r.store) <= MaxRules
        /\ txns' = [txns EXCEPT ![i] = r.txn]
        /\ rules' = r.store
        /\ learned' = learned \cup (DOMAIN r.store \ DOMAIN rules)
        /\ last' = Op("apply_user_category", <<i>>)
        /\ UNCHANGED <<api_key, parser_in, parser_out, committed, calls>>
        /\ UNCHANGED session_vars

CategorizeWithAi(idxs, oracle) ==
    LET r == categorize_with_ai(Pick(txns, idxs), api_key, oracle)
    IN  /\ txns' = Put(txns, idxs, r.txns)
        /\ calls' = r.calls
        /\ last' = Op("categorize_with_ai", idxs)
        /\ UNCHANGED <<rules, learned, api_key, parser_in, parser_out, committed>>
        /\ UNCHANGED session_vars

Next ==
    \/ \E i \in DOMAIN txns : CategorizeTransaction(i)
    \/ \E idxs \in Batches : CategorizeBatch(idxs)
    \/ \E i \in DOMAIN txns, u \in UserInputs : ApplyUserCategory(i, u)
    \/ \E idxs \in Batches, a \in PoolResponses :
          CategorizeWithAi(idxs, CHOOSE o \in Oracles({a}) : TRUE)

Spec == Init /\ [][Next]_vars

\* ---------------------------------------------------- categorizer: properties

Range(f) == {f[k] : k \in DOMAIN f}

AutomatedPasses == {"categorize_transaction", "categorize_batch", "categorize_with_ai"}

\* C1 (as claimed): a transaction whose confidence is 'user' keeps its confidence,
\* category and note across every rule pass and every AI pass applied to it.
C1_UserIsFinal ==
    [][\A i \in DOMAIN txns :
          (txns[i].confidence = "user" /\ last'.op \in AutomatedPasses)
              => txns'[i] = txns[i]]_vars

\* C2 (as claimed): no operation sets a confidence of 'rule' or 'ai' back to
\* 'unknown'.
C2_NeverBackToUnknown ==
    [][\A i \in DOMAIN txns :
          txns[i].confidence \in {"rule", "ai"} => txns'[i].confidence # "unknown"]_vars

\* C3: a rule created by learning never has the pattern, compared
\* case-insensitively, of a rule that was in the store before it; so corrections of
\* transactions with case-insensitively equal descriptions create at most one rule.
C3_LearnedOnce ==
    \A i \in learned : \A j \in DOMAIN rules :
        j < i => lower(rules[j].pattern) # lower(rules[i].pattern)

\* C3 witness: two transactions whose descriptions differ only in case were both
\* corrected by the user, and learning created exactly one rule for them.
C3_Witness ==
    /\ last.op = "apply_user_category"
    /\ \E i, j \in DOMAIN txns :
          /\ i # j
          /\ txns[i].description # txns[j].description
          /\ lower(txns[i].description) = lower(txns[j].description)
          /\ txns[i].confidence = "user" /\ txns[j].confidence = "user"
          /\ Cardinality({k \in learned :
                 lower(rules[k].pattern) = lower(txns[i].description)}) = 1

\* the rules of `store` that match `description`
Matching(store, description) == {r \in Range(store) : match_rule(description, r)}

\* r comes before every other rule of M: more matches, or as many and a lower id
IsFirst(r, M) ==
    \A q \in M \ {r} :
        r.match_count > q.match_count \/ (r.match_count = q.match_count /\ r.id < q.id)

\* C5: get_all_rules returns every rule once, by descending match_count and
\* ascending id among equals; categorize_transaction gives the transaction the
\* category and note of the first rule in that order that matches.
C5_RuleOrdering ==
    [][LET rl == get_all_rules(rules)
       IN  /\ Len(rl) = Len(rules) /\ Range(rl) = Range(rules)
           /\ \A j, k \in DOMAIN rl : j < k => IsFirst(rl[j], {rl[j], rl[k]})
           /\ last'.op = "categorize_transaction" =>
                LET i == last'.idxs[1]
                    M == Matching(rules, txns[i].description)
                IN  M # {} => \E r \in M : /\ IsFirst(r, M)
                                            /\ txns'[i].category = r.category
                                            /\ txns'[i].note = r.note_template]_vars

\* C5 witness: a transaction was categorized by a rule that was inserted later than
\* another matching rule of another category but has matched more often.
C5_Witness ==
    /\ last.op = "categorize_transaction"
    /\ LET t == txns[last.idxs[1]]
       IN  /\ t.confidence = "rule"
           /\ \E r, q \in Matching(rules, t.description) :
                 /\ r.id > q.id /\ r.match_count > q.match_count + 1
                 /\ r.category # q.category
                 /\ t.category = r.category

\* C6: one categorize_transaction. If a rule matches: the first matching rule's
\* category and note, confidence 'rule', that rule's match_count + 1 and no other
\* change to the store. If none matches: confidence 'unknown', category and note
\* as before, the store as before. No other transaction changes.
C6_OneCategorization ==
    [][last'.op = "categorize_transaction" =>
         LET i == last'.idxs[1]
             M == Matching(rules, txns[i].description)
         IN  /\ \A j \in DOMAIN txns : j # i => txns'[j] = txns[j]
             /\ M = {} => /\ txns'[i] = [txns[i] EXCEPT !.confidence = "unknown"]
                          /\ rules' = rules
             /\ M # {} => \E r \in M :
                   /\ IsFirst(r, M)
                   /\ txns'[i] = [txns[i] EXCEPT !.category = r.category,
                                                 !.note = r.note_template,
                                                 !.confidence = "rule"]
                   /\ DOMAIN rules' = DOMAIN rules
                   /\ \A k \in DOMAIN rules :
                         rules'[k] = IF rules[k].id = r.id
                                     THEN [rules[k] EXCEPT !.match_count = @ + 1]
                                     ELSE rules[k]]_vars

\* C6 witness: after a categorize_transaction that matched, one rule has counted
\* the match and another rule of the store has not.
C6_Witness ==
    /\ last.op = "categorize_transaction"
    /\ txns[last.idxs[1]].confidence = "rule"
    /\ \E r, q \in Range(rules) :
          /\ r.match_count = 1 /\ q.match_count = 0
          /\ match_rule(txns[last.idxs[1]].description, r)
          /\ txns[last.idxs[1]].category = r.category

\* C7 (as claimed): two transactions with the same description categorized
\* against the same rule list end with the same category, note and confidence.
C7_SameDescriptionSameResult ==
    [][last'.op = "categorize_batch" =>
         \A i, j \in Range(last'.idxs) :
            txns[i].description = txns[j].description =>
                /\ txns'[i].confidence = txns'[j].confidence
                /\ txns'[i].category = txns'[j].category
                /\ txns'[i].note = txns'[j].note]_vars

\* C7 (amended): they end with the same confidence; with the same category and
\* note when a rule matches; and when none matches each keeps the category and
\* note it had, so the results agree when those agreed before.
C7_Deterministic ==
    [][last'.op = "categorize_batch" =>
         \A i, j \in Range(last'.idxs) :
            txns[i].description = txns[j].description =>
                /\ txns'[i].confidence = txns'[j].confidence
                /\ txns'[i].confidence = "rule" =>
                      /\ txns'[i].category = txns'[j].category
                      /\ txns'[i].note = txns'[j].note
                /\ txns'[i].confidence = "unknown" =>
                      /\ txns'[i].category = txns[i].category
                      /\ txns'[i].note = txns[i].note]_vars

\* C7 witness: a batch categorized two transactions with the same description by
\* a rule, and both carry that rule's category.
C7_Witness ==
    /\ last.op = "categorize_batch"
    /\ \E i, j \in Range(last.idxs) :
          /\ i # j
          /\ txns[i].description = txns[j].description
          /\ txns[i].confidence = "rule" /\ txns[j].confidence = "rule"
          /\ txns[i].category = txns[j].category

\* ------------------------------------------- AI fallback on a long list

\* a list of n transactions still 'unknown' after the rule pass
InitAI ==
    /\ rules = <<>>
    /\ learned = {}
    /\ txns \in {[i \in 1..n |-> NewTransaction(<<"a">>, i - 1)] : n \in 0..MaxAiTxns}
    /\ api_key \in BOOLEAN
    /\ parser_in = None /\ parser_out = None
    /\ calls = <<>>
    /\ last = Op("init", <<>>)
    /\ NoStore

\* categorize_with_ai(transactions) on the whole list
RunAi(oracle) ==
    LET r == categorize_with_ai(txns, api_key, oracle)
    IN  /\ txns' = r.txns
        /\ calls' = r.calls
        /\ last' = [op |-> "categorize_with_ai", idxs |-> <<>>,
                    outcome |-> IF r.raised THEN "raised" ELSE "done"]
        /\ UNCHANGED <<rules, learned, api_key, parser_in, parser_out, committed>>
        /\ UNCHANGED session_vars

NextAI == \E oracle \in Oracles(Responses) : RunAi(oracle)

SpecAI == InitAI /\ [][NextAI]_vars

RECURSIVE Flatten(_)
Flatten(ss) == IF ss = <<>> THEN <<>> ELSE Head(ss) \o Flatten(Tail(ss))

\* C8: with the service configured, n transactions give ceil(n/25) calls; the
\* batches sent are non-empty, at most 25 long, and put one after another they
\* are the list itself; 30 transactions give a call of 25 and a call of 5, none
\* gives no call.
C8_Batching ==
    (last.op = "categorize_with_ai" /\ api_key) =>
        LET n == Len(txns)
        IN  /\ (Len(calls) - 1) * 25 < n /\ n <= Len(calls) * 25
            /\ n = 0 => calls = <<>>
            /\ \A k \in DOMAIN calls : Len(calls[k]) >= 1 /\ Len(calls[k]) <= 25
            /\ Flatten(calls) = [i \in 1..n |-> txns[i].row_index]
            /\ n = 30 => Len(calls) = 2 /\ Len(calls[1]) = 25 /\ Len(calls[2]) = 5

\* C8 witness: a run on 30 transactions issued two calls.
C8_Witness ==
    /\ last.op = "categorize_with_ai" /\ api_key
    /\ Len(txns) = 30 /\ Len(calls) = 2
    /\ txns[26].confidence = "ai"

\* ------------------------------------------------------------ session store

NoSession == [id |-> 0]

Sections == <<"debit_bank", "credit_bank", "debit_company", "credit_company">>

\* A ReconciliationResult is its all_transactions: the four lists one after
\* another, each transaction tagged (field section) with the list that holds it.
\* Amounts are in thousandths of a euro.
DocTransaction(description, section, row_index) ==
    [date |-> "d1", description |-> description, value |-> 1000,
     type |-> IF section \in {"debit_bank", "debit_company"} THEN "debit" ELSE "credit",
     row_index |-> row_index, category |-> None, note |-> None,
     confidence |-> "unknown", section |-> section]

\* what parse_reconciliation_pdf returns for the uploaded documents
Docs ==
    { <<>>,
      <<DocTransaction(<<"a">>, "debit_bank", 0), DocTransaction(<<"b">>, "credit_bank", 1)>> }

\* the positions of `ts`, in order, whose confidence is 'unknown'
RECURSIVE unknown_from(_, _)
unknown_from(ts, k) ==
    IF k > Len(ts) THEN <<>>
    ELSE (IF ts[k].confidence = "unknown" THEN <<k>> ELSE <<>>) \o unknown_from(ts, k + 1)

uncategorized(ts) == unknown_from(ts, 1)

categorized(ts) == SelectSeq(ts, LAMBDA t : t.confidence # "unknown")

\* the second list categorize_batch returns, which the handler hands to
\* categorize_with_ai: the positions left with confidence 'unknown'
categorize_batch_everything(ts) == [k \in DOMAIN ts |-> k]

categorize_batch_uncategorized(ts) == unknown_from(ts, 1)

\* `x or ""` when a text column is written
or_empty(x) == IF Truthy(x) THEN x ELSE ""

\* `x if x else None` when a text column is read
or_none(x) == IF Truthy(x) THEN x ELSE None

transaction_row(session_id, t) ==
    [session_id |-> session_id, date |-> t.date, description |-> t.description,
     value |-> t.value, type |-> t.type, section |-> t.section,
     category |-> or_empty(t.category), note |-> or_empty(t.note),
     categorization_method |-> t.confidence, row_index |-> t.row_index]

\* INSERT OR REPLACE of the session row (status 'active', created_at now), DELETE
\* of the session's transactions, INSERT of the result's transactions
save_full_session(S, T, clock, session_id, filename, result, current_index, reviewed_count) ==
    [sessions |->
        Append(SelectSeq(S, LAMBDA r : r.id # session_id),
               [id |-> session_id, filename |-> filename,
                total_transactions |-> Len(result),
                auto_categorized |-> Len(categorized(result)),
                needs_review |-> Len(uncategorized(result)),
                current_index |-> current_index, reviewed_count |-> reviewed_count,
                status |-> "active", created_at |-> clock]),
     transactions |->
        SelectSeq(T, LAMBDA r : r.session_id # session_id)
            \o [k \in DOMAIN result |-> transaction_row(session_id, result[k])]]

complete_session(S, session_id) ==
    [k \in DOMAIN S |-> IF S[k].id = session_id THEN [S[k] EXCEPT !.status = "complete"]
                        ELSE S[k]]

\* INSERT without section and row_index: the columns' defaults
save_transaction(T, session_id, t) ==
    Append(T, [transaction_row(session_id, t) EXCEPT
                  !.category = IF Truthy(t.category) THEN t.category ELSE "sem_categoria",
                  !.section = "", !.row_index = 0])

RECURSIVE save_transactions(_, _, _)
save_transactions(T, session_id, ts) ==
    IF ts = <<>> THEN T
    ELSE save_transactions(save_transaction(T, session_id, Head(ts)), session_id, Tail(ts))

\* ABS(value - ?) < 0.01
close(v, w) == (IF v > w THEN v - w ELSE w - v) < 10

update_transaction_category(T, session_id, date, description, value, category, note) ==
    [k \in DOMAIN T |->
        IF /\ T[k].session_id = session_id /\ T[k].date = date
           /\ T[k].description = description /\ close(T[k].value, value)
        THEN [T[k] EXCEPT !.category = category, !.note = note,
                          !.categorization_method = "user"]
        ELSE T[k]]

update_session_review_state_cursor_only(S, session_id, current_index, reviewed_count) ==
    [k \in DOMAIN S |->
        IF S[k].id = session_id THEN [S[k] EXCEPT !.current_index = current_index]
        ELSE S[k]]

update_session_review_state(S, session_id, current_index, reviewed_count) ==
    [k \in DOMAIN S |->
        IF S[k].id = session_id
        THEN [S[k] EXCEPT !.current_index = current_index,
                          !.reviewed_count = reviewed_count]
        ELSE S[k]]

\* the rows `ORDER BY created_at DESC LIMIT 1` may return: SQL leaves the order of
\* rows with equal created_at open
latest_active(S) ==
    {k \in DOMAIN S : /\ S[k].status = "active"
                      /\ \A j \in DOMAIN S :
                            S[j].status = "active" => S[j].created_at <= S[k].created_at}

load_transaction(r) ==
    [date |-> r.date, description |-> r.description, value |-> r.value, type |-> r.type,
     row_index |-> r.row_index, category |-> or_none(r.category), note |-> or_none(r.note),
     confidence |-> IF r.categorization_method = "" THEN "unknown"
                    ELSE r.categorization_method,
     section |-> r.section]

\* the session dict load_latest_session builds from session row k
load_session(S, T, k) ==
    LET txn_rows == SelectSeq(T, LAMBDA r : r.session_id = S[k].id)
        loaded == [j \in DOMAIN txn_rows |-> load_transaction(txn_rows[j])]
        result == SelectSeq(loaded, LAMBDA t : t.section = Sections[1])
                  \o SelectSeq(loaded, LAMBDA t : t.section = Sections[2])
                  \o SelectSeq(loaded, LAMBDA t : t.section = Sections[3])
                  \o SelectSeq(loaded, LAMBDA t : t.section = Sections[4])
    IN  IF txn_rows = <<>> THEN NoSession
        ELSE [id |-> S[k].id, filename |-> S[k].filename, result |-> result,
              pending_review |-> uncategorized(result),
              current_index |-> S[k].current_index,
              reviewed_count |-> S[k].reviewed_count]

\* every value load_latest_session may return (NoSession for None)
load_latest_session(S, T) ==
    IF latest_active(S) = {} THEN {NoSession}
    ELSE {load_session(S, T, k) : k \in latest_active(S)}

\* ---------------------------------------------------------------- handlers

\* every value _try_restore_session may return; the handler keeps it in user_data
try_restore_session(session, S, T) ==
    IF session.id # 0 THEN {session} ELSE load_latest_session(S, T)

SessionOp(op, session_id, outcome) ==
    [op |-> op, idxs |-> <<session_id>>, outcome |-> outcome]

\* `last` names the last handler run that changed the rule table, the database
\* or user_data; a run that changed none of them leaves it alone
Record(op) ==
    last' = IF <<rules, sessions, transactions, acct_session, now>>'
                 = <<rules, sessions, transactions, acct_session, now>>
            THEN last ELSE op

\* the bot starts with the seeded rule table, an empty session store and no
\* session in memory
InitSession ==
    /\ rules \in {seed_default_rules(<<>>, rs) : rs \in {<<ContainsA>>}}
    /\ learned = {}
    /\ txns = <<>>
    /\ api_key = TRUE
    /\ parser_in = None /\ parser_out = None
    /\ calls = <<>>
    /\ sessions = <<>>
    /\ transactions = <<>>
    /\ acct_session = NoSession
    /\ now = 0
    /\ committed = None
    /\ last = Op("init", <<>>)

\* _handle_reconciliation_pdf up to the save, stage by stage: the rule pass `rb`,
\* the positions `unc` it left unknown, the AI stage `ai` on these, the result
\* with the AI stage's transactions put back, and the list for the review
reconcile_review_before_ai(rb, unc, ai, result) ==
    [store |-> rb.store, calls |-> ai.calls, raised |-> rb.raised \/ ai.raised,
     result |-> result, pending_review |-> unc]

reconcile_review(rb, unc, ai, result) ==
    [store |-> rb.store, calls |-> ai.calls, raised |-> rb.raised \/ ai.raised,
     result |-> result,
     pending_review |-> SelectSeq(unc, LAMBDA k : result[k].confidence = "unknown")]

reconcile_result(rb, unc, ai) == reconcile_review(rb, unc, ai, Put(rb.txns, unc, ai.txns))

reconcile_ai(rb, unc, key, oracle) ==
    reconcile_result(rb, unc,
        IF unc # <<>> /\ key THEN categorize_with_ai(Pick(rb.txns, unc), key, oracle)
        ELSE [txns |-> Pick(rb.txns, unc), calls |-> <<>>, raised |-> FALSE])

reconcile_rules(rb, key, oracle) ==
    reconcile_ai(rb, categorize_batch_uncategorized(rb.txns), key, oracle)

reconcile(doc, store, key, oracle) ==
    reconcile_rules(categorize_batch(doc, [k \in DOMAIN doc |-> k], store), key, oracle)

\* the rest of the handler: an exception that left a stage is caught by
\* handle_pdf_upload, which answers with an error (nothing is saved, no review
\* starts); otherwise save_full_session, then user_data["acct_session"]
FinishReconciliation(out, session_id, db) ==
    /\ Capped(out.store)
    /\ rules' = out.store
    /\ calls' = out.calls
    /\ IF out.raised
       THEN /\ UNCHANGED <<sessions, transactions, acct_session>>
            /\ Record(SessionOp("handle_reconciliation_pdf", acct_session.id, "error"))
       ELSE /\ sessions' = db.sessions
            /\ transactions' = db.transactions
            /\ acct_session' = [id |-> session_id, filename |-> "f.pdf",
                                result |-> out.result,
                                pending_review |-> out.pending_review,
                                current_index |-> 0, reviewed_count |-> 0]
            /\ Record(SessionOp("handle_reconciliation_pdf", session_id, "saved"))

SaveReconciliation(out, session_id) ==
    FinishReconciliation(out, session_id,
        save_full_session(sessions, transactions, now, session_id, "f.pdf",
                          out.result, 0, 0))

\* handle_pdf_upload / _handle_reconciliation_pdf on a document the parser read
\* as `doc`
HandleReconciliationPdf(doc, oracle) ==
    /\ Len(sessions) < MaxSessions
    /\ UNCHANGED <<learned, txns, api_key, parser_in, parser_out, committed, now>>
    /\ IF doc = <<>>
       THEN /\ UNCHANGED <<rules, calls, sessions, transactions, acct_session>>
            /\ Record(SessionOp("handle_reconciliation_pdf", acct_session.id, "empty"))
       ELSE SaveReconciliation(reconcile(doc, rules, api_key, oracle), Len(sessions) + 1)

\* _handle_category_callback on callback data "acct:<txn_idx>:<choice>"
HandleCategoryCallback(txn_idx, choice) ==
    \E session \in try_restore_session(acct_session, sessions, transactions) :
        /\ IF session.id = 0 \/ txn_idx >= Len(session.pending_review)
           THEN /\ acct_session' = session
                /\ UNCHANGED <<rules, learned, sessions, transactions>>
           ELSE LET pos == session.pending_review[txn_idx + 1]
                    txn == session.result[pos]
                    r == IF choice = "skip" THEN [txn |-> txn, store |-> rules]
                         ELSE apply_user_category(txn, choice, "", TRUE, rules)
                    after == [session EXCEPT !.result[pos] = r.txn,
                                             !.current_index = txn_idx + 1,
                                             !.reviewed_count = @ + 1]
                IN  /\ Len(r.store) <= MaxRules
                    /\ after.current_index <= MaxCursor
                    /\ after.reviewed_count <= MaxCursor
                    /\ rules' = r.store
                    /\ learned' = learned \cup (DOMAIN r.store \ DOMAIN rules)
                    /\ transactions' =
                          IF choice = "skip" THEN transactions
                          ELSE update_transaction_category(
                                  transactions, session.id, r.txn.date, r.txn.description,
                                  r.txn.value,
                                  IF Truthy(r.txn.category) THEN r.txn.category ELSE choice,
                                  or_empty(r.txn.note))
                    /\ sessions' = update_session_review_state(
                                      sessions, session.id, after.current_index,
                                      after.reviewed_count)
                    /\ acct_session' = after
        /\ UNCHANGED <<txns, api_key, parser_in, parser_out, committed, calls, now>>
        /\ Record([op |-> "handle_category_callback", idxs |-> <<session.id, txn_idx>>,
                   outcome |-> choice])

\* cmd_acct_skip
CmdAcctSkip ==
    \E session \in try_restore_session(acct_session, sessions, transactions) :
        /\ IF session.id = 0 \/ session.pending_review = <<>>
           THEN acct_session' = session
           ELSE /\ session.current_index < MaxCursor
                /\ acct_session' = [session EXCEPT !.current_index = @ + 1]
        /\ UNCHANGED <<rules, learned, txns, api_key, parser_in, parser_out, committed, calls, sessions, transactions, now>>
        /\ Record(SessionOp("cmd_acct_skip", session.id, "skip"))

\* _exec_skip_transaction (tool skip_transaction)
ExecSkipTransaction ==
    /\ IF acct_session.id = 0
       THEN UNCHANGED acct_session
       ELSE /\ acct_session.current_index < MaxCursor
            /\ acct_session' = [acct_session EXCEPT !.current_index = @ + 1]
    /\ UNCHANGED <<rules, learned, txns, api_key, parser_in, parser_out, committed, calls, sessions, transactions, now>>
    /\ Record(SessionOp("exec_skip_transaction", acct_session.id, "skip"))

\* what the model answers to the documents' batches
DocResponses ==
    { Response("error", <<>>), Response("json", <<Item("int", 0, "c2", Missing)>>) }

\* the buttons of the review keyboard
Choices == {"c1", "skip"}

\* the export and send_document return ("ok") or one of them raises ("failed")
ExportOutcomes == {"ok", "failed"}

export_completes_always(outcome) == TRUE

\* the try block of the export handlers reaches complete_session only when the
\* file was written and send_document returned
export_completes(outcome) == outcome = "ok"

\* _handle_export_callback
HandleExportCallback(outcome) ==
    \E session \in try_restore_session(acct_session, sessions, transactions) :
        /\ acct_session' = session
        /\ IF session.id # 0 /\ export_completes(outcome)
           THEN /\ Len(transactions) + Len(session.result) <= MaxRows
                /\ sessions' = complete_session(sessions, session.id)
                /\ transactions' = save_transactions(transactions, session.id, session.result)
           ELSE UNCHANGED <<sessions, transactions>>
        /\ UNCHANGED <<rules, learned, txns, api_key, parser_in, parser_out, committed, calls, now>>
        /\ Record(SessionOp("handle_export_callback", session.id, outcome))

\* handle_accounting_export (tool export_accounting)
HandleAccountingExport(outcome) ==
    \E session \in try_restore_session(acct_session, sessions, transactions) :
        /\ acct_session' = session
        /\ sessions' = IF session.id # 0 /\ export_completes(outcome)
                       THEN complete_session(sessions, session.id)
                       ELSE sessions
        /\ UNCHANGED <<rules, learned, txns, api_key, parser_in, parser_out, committed, calls, transactions, now>>
        /\ Record(SessionOp("handle_accounting_export", session.id, outcome))

\* one entry of transactions_data: description to search, category, note
UpdateItems ==
    { [description |-> <<"A">>, category |-> "c2", note |-> ""] }

\* the body of `for txn in matches:` in handle_accounting_update
update_match(t, item) ==
    LET c == IF item.category # "" THEN [t EXCEPT !.category = item.category,
                                                  !.confidence = "user"]
             ELSE t
        n == IF item.note # "" THEN [c EXCEPT !.note = item.note] ELSE c
    IN  IF item.note = "" /\ item.category # ""
        THEN [n EXCEPT !.note = get_category_display(item.category)]
        ELSE n

\* handle_accounting_update with one entry in transactions_data; the rows that
\* update_transaction_category writes are replaced by save_full_session
HandleAccountingUpdate(item) ==
    \E session \in try_restore_session(acct_session, sessions, transactions) :
        LET search_desc == lower(item.description)
            matches == IF session.id = 0 \/ search_desc = <<>> THEN {}
                       ELSE {k \in DOMAIN session.result :
                                contains(search_desc, lower(session.result[k].description))}
            result == [k \in DOMAIN session.result |->
                          IF k \in matches THEN update_match(session.result[k], item)
                          ELSE session.result[k]]
            db == save_full_session(sessions, transactions, now, session.id,
                                    session.filename, result, session.current_index,
                                    session.reviewed_count)
        IN  /\ IF matches = {}
               THEN /\ acct_session' = session
                    /\ UNCHANGED <<sessions, transactions>>
               ELSE /\ acct_session' = [session EXCEPT !.result = result]
                    /\ sessions' = db.sessions
                    /\ transactions' = db.transactions
            /\ UNCHANGED <<rules, learned, txns, api_key, parser_in, parser_out, committed, calls, now>>
            /\ Record(SessionOp("handle_accounting_update", session.id, "saved"))

\* cmd_reconcile, cmd_acct_export, handle_accounting_status: they only restore
ShowStatus ==
    \E session \in try_restore_session(acct_session, sessions, transactions) :
        /\ acct_session' = session
        /\ UNCHANGED <<rules, learned, txns, api_key, parser_in, parser_out, committed, calls, sessions, transactions, now>>
        /\ Record(SessionOp("show_status", session.id, "restored"))

\* the process restarts: user_data is gone, the database stays
Restart ==
    /\ acct_session' = NoSession
    /\ UNCHANGED <<rules, learned, txns, api_key, parser_in, parser_out, committed, calls, sessions, transactions, now>>
    /\ Record(SessionOp("restart", 0, "done"))

\* a second passes
Tick ==
    /\ now < MaxTime
    /\ now' = now + 1
    /\ UNCHANGED <<rules, learned, txns, api_key, parser_in, parser_out, committed, calls, sessions, transactions, acct_session>>
    /\ Record(SessionOp("tick", 0, "done"))

NextSession ==
    \/ \E doc \in Docs, a \in DocResponses :
          HandleReconciliationPdf(doc, CHOOSE o \in Oracles({a}) : TRUE)
    \/ \E txn_idx \in 0..1, choice \in Choices :
          HandleCategoryCallback(txn_idx, choice)
    \/ CmdAcctSkip
    \/ ExecSkipTransaction
    \/ \E outcome \in ExportOutcomes : HandleExportCallback(outcome)
    \/ \E outcome \in ExportOutcomes : HandleAccountingExport(outcome)
    \/ \E item \in UpdateItems : HandleAccountingUpdate(item)
    \/ ShowStatus
    \/ Restart
    \/ Tick

SpecSession == InitSession /\ [][NextSession]_vars

\* --------------------------------------------- properties of the session store

SaveOps == {"handle_reconciliation_pdf", "handle_accounting_update"}

ExportOps == {"handle_export_callback", "handle_accounting_export"}

InSection(ts, section) == SelectSeq(ts, LAMBDA t : t.section = section)

StatusOf(S, session_id) == {S[k].status : k \in {j \in DOMAIN S : S[j].id = session_id}}

\* C4: a step that ran save_full_session(id, filename, result) leaves a store
\* from which every value load_latest_session may return is a session with that
\* id, with as many transactions in total and in each of the four groups as
\* result, and with the category and note of result for every transaction of
\* result whose confidence is not 'unknown'.
C4_RoundTrip ==
    [][(last'.op \in SaveOps /\ <<sessions, transactions>>' # <<sessions, transactions>>)
       => \A loaded \in load_latest_session(sessions', transactions') :
             /\ loaded.id # 0
             /\ loaded.id = acct_session'.id
             /\ Len(loaded.result) = Len(acct_session'.result)
             /\ \A g \in DOMAIN Sections :
                   Len(InSection(loaded.result, Sections[g]))
                      = Len(InSection(acct_session'.result, Sections[g]))
             /\ \A k \in DOMAIN acct_session'.result :
                   acct_session'.result[k].confidence # "unknown"
                      => /\ k \in DOMAIN loaded.result
                         /\ loaded.result[k].category = acct_session'.result[k].category
                         /\ loaded.result[k].note = acct_session'.result[k].note]_vars

\* C9: a session whose status is 'complete' keeps that status in every step.
C9_CompleteIsFinal ==
    [][\A k \in DOMAIN sessions :
          sessions[k].status = "complete"
             => StatusOf(sessions', sessions[k].id) = {"complete"}]_vars

\* C10: a session's status becomes 'complete' only in a run of one of the two
\* export handlers on that session in which the file was produced and sent, and
\* a run of an export handler in which the export or the send failed leaves
\* every session's status as it was.
C10_CompleteOnlyByExport ==
    [][/\ \A k \in DOMAIN sessions' :
             (/\ sessions'[k].status = "complete"
              /\ StatusOf(sessions, sessions'[k].id) # {"complete"})
                => /\ last'.op \in ExportOps
                   /\ last'.outcome = "ok"
                   /\ last'.idxs = <<sessions'[k].id>>
       /\ (last'.op \in ExportOps /\ last'.outcome = "failed")
             => \A k \in DOMAIN sessions : StatusOf(sessions', sessions[k].id)
                                              = {sessions[k].status}]_vars

\* a session was completed by an export that succeeded while another session
\* stayed active
C10_Witness ==
    /\ last.op \in ExportOps
    /\ last.outcome = "ok"
    /\ StatusOf(sessions, last.idxs[1]) = {"complete"}
    /\ \E k \in DOMAIN sessions : sessions[k].status = "active"

\* ------------------------------------------------ the session store on its own

\* INSERT OR REPLACE of the session row with the columns' defaults: status
\* 'processing', cursor and reviewed_count 0, created_at now; replacing a row
\* deletes it, and its transactions with it (ON DELETE CASCADE, foreign_keys=ON)
save_session(S, T, clock, session_id, filename, total, auto, review) ==
    [sessions |->
        Append(SelectSeq(S, LAMBDA r : r.id # session_id),
               [id |-> session_id, filename |-> filename,
                total_transactions |-> total, auto_categorized |-> auto,
                needs_review |-> review, current_index |-> 0, reviewed_count |-> 0,
                status |-> "processing", created_at |-> clock]),
     transactions |-> SelectSeq(T, LAMBDA r : r.session_id # session_id)]

\* the ReconciliationResults handed to save_full_session
StoreResults ==
    { <<>>,
      <<[DocTransaction(<<"a">>, "debit_bank", 0) EXCEPT
            !.category = "c1", !.note = "n1", !.confidence = "rule"]>>,
      <<DocTransaction(<<"a">>, "credit_bank", 0),
        [DocTransaction(<<"b">>, "credit_company", 1) EXCEPT
            !.category = "c2", !.note = "Cat Two", !.confidence = "user"]>> }

SessionIds == 1..MaxSessions

InitStore ==
    /\ rules = <<>>
    /\ learned = {}
    /\ txns = <<>>
    /\ api_key = FALSE
    /\ parser_in = None /\ parser_out = None
    /\ calls = <<>>
    /\ last = Op("init", <<>>)
    /\ NoStore

SaveFullSession(session_id, result) ==
    LET db == save_full_session(sessions, transactions, now, session_id, "f.pdf", result, 0, 0)
    IN  /\ sessions' = db.sessions
        /\ transactions' = db.transactions
        /\ last' = SessionOp("save_full_session", session_id, "done")
        /\ UNCHANGED <<rules, learned, txns, api_key, parser_in, parser_out, committed, calls, acct_session, now>>

SaveSession(session_id) ==
    LET db == save_session(sessions, transactions, now, session_id, "f.pdf", 0, 0, 0)
    IN  /\ sessions' = db.sessions
        /\ transactions' = db.transactions
        /\ last' = SessionOp("save_session", session_id, "done")
        /\ UNCHANGED <<rules, learned, txns, api_key, parser_in, parser_out, committed, calls, acct_session, now>>

CompleteSession(session_id) ==
    /\ sessions' = complete_session(sessions, session_id)
    /\ last' = SessionOp("complete_session", session_id, "done")
    /\ UNCHANGED <<rules, learned, txns, api_key, parser_in, parser_out, committed, calls, transactions, acct_session, now>>

\* a second passes between two calls
StoreTick ==
    /\ now < MaxTime
    /\ now' = now + 1
    /\ last' = SessionOp("tick", 0, "done")
    /\ UNCHANGED <<rules, learned, txns, api_key, parser_in, parser_out, committed, calls, sessions, transactions, acct_session>>

NextStore ==
    \/ \E session_id \in SessionIds, result \in StoreResults :
          SaveFullSession(session_id, result)
    \/ \E session_id \in SessionIds : SaveSession(session_id)
    \/ \E session_id \in SessionIds : CompleteSession(session_id)
    \/ StoreTick

SpecStore == InitStore /\ [][NextStore]_vars

NotComplete(S) == {k \in DOMAIN S : S[k].status # "complete"}

\* C11: in every state of the store reached by save_full_session, save_session
\* and complete_session calls, every value load_latest_session may return is the
\* session created last among those whose status is not 'complete', and it is
\* nothing only when every session is 'complete'.
C11_LoadLatestNotComplete ==
    \A loaded \in load_latest_session(sessions, transactions) :
        IF NotComplete(sessions) = {} THEN loaded = NoSession
        ELSE /\ loaded # NoSession
             /\ \E k \in NotComplete(sessions) :
                   /\ sessions[k].id = loaded.id
                   /\ \A j \in NotComplete(sessions) :
                         sessions[j].created_at <= sessions[k].created_at

\* C12: in every state the handlers reach at most one session has a status other
\* than 'complete', and right after a document was processed and its session
\* saved that session is the one.
C12_SingleActive ==
    /\ \A j, k \in NotComplete(sessions) : j = k
    /\ (last.op = "handle_reconciliation_pdf" /\ NotComplete(sessions) # {})
          => \A k \in NotComplete(sessions) : <<sessions[k].id>> = last.idxs

\* ------------------------------------------------- the review of one document

\* the bot starts with an empty or a seeded rule table
InitReview ==
    /\ rules \in {seed_default_rules(<<>>, rs) : rs \in {<<>>, <<ContainsA>>}}
    /\ learned = {}
    /\ txns = <<>>
    /\ api_key = TRUE
    /\ parser_in = None /\ parser_out = None
    /\ calls = <<>>
    /\ last = Op("init", <<>>)
    /\ NoStore

\* entries of transactions_data: with a category, with a note only
ReviewUpdateItems ==
    UpdateItems \cup {[description |-> <<"b">>, category |-> "", note |-> "n1"]}

NextReview ==
    \/ \E doc \in Docs, a \in DocResponses :
          /\ Len(sessions) < MaxDocs
          /\ HandleReconciliationPdf(doc, CHOOSE o \in Oracles({a}) : TRUE)
    \/ \E txn_idx \in 0..1, choice \in Cats \cup {"skip"} :
          HandleCategoryCallback(txn_idx, choice)
    \/ CmdAcctSkip
    \/ ExecSkipTransaction
    \/ \E outcome \in ExportOutcomes : HandleExportCallback(outcome)
    \/ \E outcome \in ExportOutcomes : HandleAccountingExport(outcome)
    \/ \E item \in ReviewUpdateItems : HandleAccountingUpdate(item)
    \/ ShowStatus
    \/ Restart
    \/ Tick

SpecReview == InitReview /\ [][NextReview]_vars

\* the session a handler works on in this step, given that it ran on session_id
Restored(session_id) ==
    {session \in try_restore_session(acct_session, sessions, transactions) :
        session.id = session_id /\ session.id # 0}

RowsOf(T, session_id, t) ==
    {k \in DOMAIN T : /\ T[k].session_id = session_id
                      /\ T[k].date = t.date
                      /\ T[k].description = t.description
                      /\ T[k].value = t.value}

\* C13: a run of the category callback that names the pending transaction at
\* the cursor (index i = current_index) and a category: afterwards the rule
\* table holds a rule for the description (an old one, or one new 'contains'
\* rule), the transaction is 'user' with that category in memory and in each of
\* its rows in the store, the cursor is i + 1, reviewed_count is one more, and
\* the session's row holds the same cursor and reviewed_count as memory.
C13_CategorizeAtCursor ==
    [][\A c \in Cats, i \in 0..MaxCursor :
          \A session \in Restored(acct_session'.id) :
             (/\ last' = [op |-> "handle_category_callback",
                          idxs |-> <<session.id, i>>, outcome |-> c]
              /\ i < Len(session.pending_review)
              /\ session.current_index = i)
             => LET pos == session.pending_review[i + 1]
                    before == session.result[pos]
                    after == acct_session'.result[pos]
                IN  /\ after.confidence = "user"
                    /\ after.category = c
                    /\ before.description # <<>>
                          => \E k \in DOMAIN rules' :
                                lower(rules'[k].pattern) = lower(before.description)
                    /\ \/ rules' = rules
                       \/ /\ Len(rules') = Len(rules) + 1
                          /\ \A k \in DOMAIN rules : rules'[k] = rules[k]
                          /\ rules'[Len(rules')].pattern = before.description
                          /\ rules'[Len(rules')].category = c
                          /\ rules'[Len(rules')].match_type = "contains"
                    /\ RowsOf(transactions', session.id, before) # {}
                    /\ \A k \in RowsOf(transactions', session.id, before) :
                          /\ transactions'[k].categorization_method = "user"
                          /\ transactions'[k].category = c
                    /\ acct_session'.current_index = i + 1
                    /\ acct_session'.reviewed_count = session.reviewed_count + 1
                    /\ \A k \in DOMAIN sessions' :
                          sessions'[k].id = session.id
                             => /\ sessions'[k].current_index = acct_session'.current_index
                                /\ sessions'[k].reviewed_count
                                      = acct_session'.reviewed_count]_vars

\* the second pending transaction was categorized at cursor 1 after the first
\* was reviewed, and the store holds the new cursor and count
C13_Witness ==
    /\ last.op = "handle_category_callback"
    /\ last.outcome \in Cats
    /\ last.idxs = <<acct_session.id, 1>>
    /\ acct_session.current_index = 2
    /\ acct_session.reviewed_count = 2
    /\ Len(acct_session.pending_review) = 2
    /\ acct_session.result[acct_session.pending_review[1]].confidence = "user"
    /\ acct_session.result[acct_session.pending_review[2]].confidence = "user"
    /\ \E k \in DOMAIN sessions : sessions[k].id = acct_session.id /\ sessions[k].reviewed_count = 2

SameButCursor(session, after) ==
    /\ after.id = session.id
    /\ after.result = session.result
    /\ after.pending_review = session.pending_review

\* C14: a skip through the Saltar button pressed for the transaction at the
\* cursor, through /acct_skip with a pending list, or through the
\* skip_transaction tool with a session in memory, advances the cursor by one,
\* adds one to reviewed_count and leaves every transaction, every stored
\* transaction row and the rule table as they were.
C14_SkipEffect ==
    [][\A session \in Restored(acct_session'.id) :
          (\/ /\ last'.op = "handle_category_callback"
              /\ last'.outcome = "skip"
              /\ last'.idxs = <<session.id, session.current_index>>
              /\ session.current_index < Len(session.pending_review)
           \/ /\ last'.op = "cmd_acct_skip"
              /\ session.pending_review # <<>>
           \/ /\ last'.op = "exec_skip_transaction"
              /\ session = acct_session)
          => /\ acct_session'.current_index = session.current_index + 1
             /\ acct_session'.reviewed_count = session.reviewed_count + 1
             /\ SameButCursor(session, acct_session')
             /\ rules' = rules
             /\ transactions' = transactions]_vars

\* C15: a run of the category callback whose index is not the session's cursor
\* changes no transaction in memory or in the store, no rule, no cursor and no
\* reviewed_count.
C15_OnlyAtCursor ==
    [][\A session \in Restored(acct_session'.id) :
          (/\ last'.op = "handle_category_callback"
           /\ Len(last'.idxs) = 2
           /\ last'.idxs[1] = session.id
           /\ last'.idxs[2] # session.current_index)
          => /\ acct_session' = session
             /\ rules' = rules
             /\ sessions' = sessions
             /\ transactions' = transactions]_vars

\* C16: an export handler produces and sends the file only for a session whose
\* cursor has reached the end of its pending list.
C16_ExportOnlyWhenReviewed ==
    [][\A session \in Restored(acct_session'.id) :
          (/\ last'.op \in ExportOps
           /\ last'.outcome = "ok"
           /\ last'.idxs = <<session.id>>)
          => session.current_index >= Len(session.pending_review)]_vars

\* the position in the result of the transaction the next prompt shows, 0 when
\* the review is over (_send_next_review)
NextToReview(session) ==
    IF session.current_index < Len(session.pending_review)
    THEN session.pending_review[session.current_index + 1]
    ELSE 0

\* C17: after a review step through the category callback, a restart would
\* restore a session whose next transaction to review is the one that is next
\* in memory.
C17_ResumeSameNext ==
    (last.op = "handle_category_callback" /\ acct_session.id # 0)
       => \A restored \in load_latest_session(sessions, transactions) :
             restored.id = acct_session.id
                => NextToReview(restored) = NextToReview(acct_session)

HasRuleFor(store, description) ==
    \E k \in DOMAIN store : lower(store[k].pattern) = lower(description)

\* C18: a handler run that assigns confidence 'user' to a transaction leaves a
\* rule table with a rule whose pattern equals the transaction's description
\* case-insensitively; when there was none before, the last rule is new, of
\* type 'contains', with the description as pattern and the transaction's note
\* as note template.
C18_UserImpliesRule ==
    [][\A session \in Restored(acct_session'.id) :
          \A k \in DOMAIN session.result :
             (/\ last' # last
              /\ k \in DOMAIN acct_session'.result
              /\ acct_session'.result[k] # session.result[k]
              /\ acct_session'.result[k].confidence = "user")
             => LET t == acct_session'.result[k]
                IN  /\ HasRuleFor(rules', t.description)
                    /\ ~HasRuleFor(rules, t.description)
                          => /\ Len(rules') = Len(rules) + 1
                             /\ rules'[Len(rules')].pattern = t.description
                             /\ rules'[Len(rules')].match_type = "contains"
                             /\ rules'[Len(rules')].category = t.category
                             /\ rules'[Len(rules')].note_template = t.note]_vars

\* C19: when a document is processed, every transaction of it whose description
\* contains, case-insensitively, the description of a stored transaction that a
\* user categorized ends with confidence 'rule' and that transaction's category.
C19_CorrectionIsStandingRule ==
    [][(last'.op = "handle_reconciliation_pdf" /\ Len(sessions') = Len(sessions) + 1)
       => \A j \in DOMAIN transactions, k \in DOMAIN acct_session'.result :
             (/\ transactions[j].categorization_method = "user"
              /\ transactions[j].description # <<>>
              /\ contains(lower(transactions[j].description),
                          lower(acct_session'.result[k].description)))
             => /\ acct_session'.result[k].confidence = "rule"
                /\ acct_session'.result[k].category = transactions[j].category]_vars

\* a response that parses to an array of {index, category, note} entries
WellFormed(response) ==
    /\ response.kind = "json"
    /\ \A k \in DOMAIN response.items :
          /\ response.items[k].shape = "dict"
          /\ response.items[k].index_type = "int"
          /\ response.items[k].category # Missing
          /\ response.items[k].note # Missing

\* C20: in a run of categorize_with_ai, a batch whose response is not well
\* formed leaves each of its transactions as it was, and no batch is sent twice.
C20_MalformedAppliesNothing ==
    [][\A oracle \in Oracles(Responses) :
          LET r == categorize_with_ai(txns, api_key, oracle)
          IN  (txns' = r.txns /\ calls' = r.calls)
                 => /\ \A b \in DOMAIN r.calls :
                          ~WellFormed(oracle[b])
                             => \A k \in DOMAIN txns :
                                   ((b - 1) * batch_size < k /\ k <= b * batch_size)
                                      => txns'[k] = txns[k]
                    /\ \A b, c \in DOMAIN r.calls : r.calls[b] = r.calls[c] => b = c]_vars

\* ------------------------------------------------- the pipeline of one upload

\* the parser's result for a document of n rows: bank debits then bank credits,
\* rows 1 and 28 described "a", the others "b"
LongDoc(n) ==
    [k \in 1..n |-> DocTransaction(IF k \in {1, 28} THEN <<"a">> ELSE <<"b">>,
                                   IF 2 * k <= n THEN "debit_bank" ELSE "credit_bank",
                                   k - 1)]

\* the document lengths tried: none, one batch, a full batch and more, the most
DocLengths == {0, 2, batch_size + 1, batch_size + 5, MaxAiTxns}

\* what the model answers to a batch: the call fails, no JSON, a full entry, an
\* entry followed by one that is no object
PipelineResponses ==
    { Response("error", <<>>),
      Response("text", <<>>),
      Response("json", <<Item("int", 0, "c2", Missing)>>),
      Response("json", <<Item("int", 1, Missing, <<"n", "1">>), Junk>>) }

\* the bot starts with an empty or a seeded rule table, with or without the
\* service's credentials
InitPipeline ==
    /\ rules \in {seed_default_rules(<<>>, rs) : rs \in {<<>>, <<ContainsA>>}}
    /\ learned = {}
    /\ txns = <<>>
    /\ api_key \in BOOLEAN
    /\ parser_in = None /\ parser_out = None
    /\ calls = <<>>
    /\ last = Op("init", <<>>)
    /\ NoStore

NextPipeline ==
    \/ \E n \in DocLengths, oracle \in Oracles(PipelineResponses) :
          /\ Len(sessions) < MaxDocs
          /\ HandleReconciliationPdf(LongDoc(n), oracle)
    \/ Restart
    \/ ShowStatus

SpecPipeline == InitPipeline /\ [][NextPipeline]_vars

\* the positions of ts whose confidence is one of cs
Positions(ts, cs) == SelectSeq([k \in DOMAIN ts |-> k], LAMBDA k : ts[k].confidence \in cs)

Digits == {"0", "1", "2", "3", "4", "5", "6", "7", "8", "9"}

DigitValue(c) ==
    CASE c = "0" -> 0 [] c = "1" -> 1 [] c = "2" -> 2 [] c = "3" -> 3 [] c = "4" -> 4
      [] c = "5" -> 5 [] c = "6" -> 6 [] c = "7" -> 7 [] c = "8" -> 8 [] c = "9" -> 9

\* str.strip() on a text whose only white space is the blank
RECURSIVE lstrip(_)
lstrip(text) ==
    IF text # <<>> /\ Head(text) = " " THEN lstrip(Tail(text)) ELSE text

RECURSIVE rstrip(_)
rstrip(text) ==
    IF text # <<>> /\ text[Len(text)] = " " THEN rstrip(SubSeq(text, 1, Len(text) - 1))
    ELSE text

strip(text) == rstrip(lstrip(text))

\* re.sub(r"[^\d.,-]", "", text)
keep_numeric(text) == SelectSeq(text, LAMBDA c : c \in Digits \cup {".", ",", "-"})

\* cleaned.replace(".", "").replace(",", ".")
to_decimal_point(cleaned) ==
    LET no_dots == SelectSeq(cleaned, LAMBDA c : c # ".")
    IN  [i \in DOMAIN no_dots |-> IF no_dots[i] = "," THEN "." ELSE no_dots[i]]

\* the value of a run of digits read as an integer
RECURSIVE digits_value(_)
digits_value(ds) ==
    IF ds = <<>> THEN 0
    ELSE 10 * digits_value(SubSeq(ds, 1, Len(ds) - 1)) + DigitValue(ds[Len(ds)])

\* float(s) accepts, over the characters that are left, an optional leading "-",
\* then digits with at most one "." among them and at least one digit
float_accepts(s) ==
    LET body == IF s # <<>> /\ Head(s) = "-" THEN Tail(s) ELSE s
    IN  /\ \A i \in DOMAIN body : body[i] \in Digits \cup {"."}
        /\ Cardinality({i \in DOMAIN body : body[i] = "."}) <= 1
        /\ \E i \in DOMAIN body : body[i] \in Digits

\* float(s) for an accepted s, in thousandths (decimals after the third are cut)
float_value(s) ==
    LET minus == s # <<>> /\ Head(s) = "-"
        body == IF minus THEN Tail(s) ELSE s
        dots == {i \in DOMAIN body : body[i] = "."}
        dot == IF dots = {} THEN Len(body) + 1 ELSE CHOOSE i \in dots : TRUE
        whole == SubSeq(body, 1, dot - 1)
        decimals == SubSeq(body, dot + 1, Len(body))
        three == SubSeq(decimals \o <<"0", "0", "0">>, 1, 3)
        magnitude == digits_value(whole) * 1000 + digits_value(three)
    IN  IF minus THEN 0 - magnitude ELSE magnitude

\* what parse_portuguese_number returns or raises
NoNumber == [is_none |-> TRUE, value |-> 0, raised |-> "none"]

Number(v) == [is_none |-> FALSE, value |-> v, raised |-> "none"]

Raised(exc) == [is_none |-> TRUE, value |-> 0, raised |-> exc]

\* `except ValueError:` around float(cleaned)
except_value_error_never(exc) == FALSE

except_value_error(exc) == exc = "ValueError"

parse_portuguese_number(text) ==
    IF text = <<>> \/ strip(text) = <<>> THEN NoNumber
    ELSE LET stripped == strip(text)
             negative == Head(stripped) \in {"-", "("}
             cleaned == keep_numeric(stripped)
             decimal == to_decimal_point(cleaned)
             exc == IF float_accepts(decimal) THEN "none" ELSE "ValueError"
             val == float_value(decimal)
         IN  IF cleaned = <<>> THEN NoNumber
             ELSE IF exc # "none"
                  THEN (IF except_value_error(exc) THEN NoNumber ELSE Raised(exc))
             ELSE Number(IF negative /\ val > 0 THEN 0 - val ELSE val)

\* the characters of the texts tried
NumberChars == {"0", "1", ".", ",", "-", "(", " ", "x"}

MaxNumberLen == 3

\* "1.234,56", "-12,30", "(12,30)" and a price with currency noise
NumberExamples ==
    { <<"1", ".", "2", "3", "4", ",", "5", "6">>,
      <<"-", "1", "2", ",", "3", "0">>,
      <<"(", "1", "2", ",", "3", "0", ")">>,
      <<" ", "3", "5", ",", "0", "0", " ", "E", "U", "R">> }

NumberTexts ==
    NumberExamples \cup UNION {[1..n -> NumberChars] : n \in 0..MaxNumberLen}

InitNumber ==
    /\ rules = <<>>
    /\ learned = {}
    /\ txns = <<>>
    /\ api_key = FALSE
    /\ calls = <<>>
    /\ parser_in \in NumberTexts
    /\ parser_out = None
    /\ last = Op("init", <<>>)
    /\ NoStore

ParsePortugueseNumber ==
    /\ last.op = "init"
    /\ parser_out' = parse_portuguese_number(parser_in)
    /\ last' = Op("parse_portuguese_number", <<>>)
    /\ UNCHANGED <<rules, learned, txns, api_key, calls, parser_in, committed>>
    /\ UNCHANGED session_vars

NextNumber == ParsePortugueseNumber

SpecNumber == InitNumber /\ [][NextNumber]_vars

HasDigit(text) == \E i \in DOMAIN text : text[i] \in Digits

\* C22: parse_portuguese_number gives 1234.56 for "1.234,56", -12.30 for
\* "-12,30" and "(12,30)"; on no text does it raise; for the empty text, for
\* blank text and for every text without a digit it returns None, not zero.
C22_NumberParser ==
    last.op = "parse_portuguese_number" =>
        /\ parser_out.raised = "none"
        /\ parser_in = <<"1", ".", "2", "3", "4", ",", "5", "6">>
              => parser_out = Number(1234560)
        /\ parser_in = <<"-", "1", "2", ",", "3", "0">> => parser_out = Number(0 - 12300)
        /\ parser_in = <<"(", "1", "2", ",", "3", "0", ")">>
              => parser_out = Number(0 - 12300)
        /\ ~HasDigit(parser_in) => parser_out = NoNumber

\* C22 witness: a text of separators and a sign only, on which float() is
\* reached and refuses, was parsed to None
C22_Witness ==
    /\ last.op = "parse_portuguese_number"
    /\ parser_in = <<"-", ",">>
    /\ parser_out = NoNumber
\* ----------------------------------------------------- pdf_parser: documents

\* A line of page text is [section, text]: `section` is what _detect_section
\* finds in it (0 for None), `text` its characters.  A table row is
\* [section, cells]: `section` is what _detect_section finds in the row's joined
\* cells, `cells` the cell texts (an empty text for an empty or None cell).
Line(section, text) == [section |-> section, text |-> text]

Row(section, cells) == [section |-> section, cells |-> cells]

\* " ".join of the texts that are not empty
RECURSIVE join(_)
join(texts) ==
    IF texts = <<>> THEN <<>>
    ELSE IF Head(texts) = <<>> THEN join(Tail(texts))
    ELSE IF join(Tail(texts)) = <<>> THEN Head(texts)
    ELSE Head(texts) \o <<" ">> \o join(Tail(texts))

\* the runs of characters other than white space, in order
RECURSIVE split(_)
split(text) ==
    LET s == lstrip(text)
        blanks == {i \in DOMAIN s : s[i] = " "}
        k == IF blanks = {} THEN Len(s) + 1
             ELSE CHOOSE i \in blanks : \A j \in blanks : i <= j
    IN  IF s = <<>> THEN <<>>
        ELSE <<SubSeq(s, 1, k - 1)>> \o split(SubSeq(s, k + 1, Len(s)))

\* \d{4}-\d{2}-\d{2} over the whole of w
iso_date(w) ==
    /\ Len(w) = 10
    /\ \A i \in 1..10 : IF i \in {5, 8} THEN w[i] = "-" ELSE w[i] \in Digits

\* \d{2}[-/]\d{2}[-/]\d{4} over the whole of w
dmy_date(w) ==
    /\ Len(w) = 10
    /\ \A i \in 1..10 : IF i \in {3, 6} THEN w[i] \in {"-", "/"} ELSE w[i] \in Digits

_is_data_row(row) ==
    /\ row # <<>> /\ row[1] # <<>>
    /\ LET first_cell == strip(row[1])
       IN  /\ Len(first_cell) >= 10
           /\ iso_date(SubSeq(first_cell, 1, 10)) \/ dmy_date(SubSeq(first_cell, 1, 10))

_is_total_row(row) ==
    \E i \in DOMAIN row : row[i] # <<>> /\ contains(<<"t", "o", "t", "a", "l">>, lower(row[i]))

_is_sem_movimentos(row) ==
    \E i \in DOMAIN row : row[i] # <<>> /\ contains(<<"s", "e", "m", " ", "m", "o", "v", "i", "m", "e", "n", "t", "o", "s">>, lower(row[i]))

\* a Transaction as the parser builds it; `list` is the list of the result it
\* is appended to, `strategy` (ghost) the strategy that accepted it
ParsedTransaction(date, description, value, type, row_index, list, strategy) ==
    [date |-> date, description |-> description, value |-> value, type |-> type,
     row_index |-> row_index, list |-> list, strategy |-> strategy,
     category |-> None, note |-> None, confidence |-> "unknown"]

\* sections 2 and 4 are debits, 3 and 5 credits
section_type(section) == IF section \in {2, 4} THEN "debit" ELSE "credit"

section_list(section) ==
    CASE section = 2 -> "debit_transactions" [] section = 3 -> "credit_transactions"
      [] section = 4 -> "company_debits" [] section = 5 -> "company_credits"

\* `if value is None: logger.warning(...); continue`: the loop goes on with the
\* rows that follow (`following`: what it accepts from them)
skip_unparsed_aborting(following) == <<>>

skip_unparsed(following) == following

RECURSIVE _extract_transactions_from_table(_, _, _)
_extract_transactions_from_table(rows, section, idx) ==
    IF rows = <<>> THEN <<>>
    ELSE LET row == Head(rows).cells
             value_str == IF row # <<>> THEN strip(row[Len(row)]) ELSE <<>>
             value == parse_portuguese_number(value_str)
         IN  IF _is_total_row(row) \/ _is_sem_movimentos(row) \/ ~_is_data_row(row)
             THEN _extract_transactions_from_table(Tail(rows), section, idx)
             ELSE IF value.is_none
             THEN skip_unparsed(_extract_transactions_from_table(Tail(rows), section, idx))
             ELSE <<ParsedTransaction(strip(row[1]),
                                      IF Len(row) > 2 THEN strip(row[3]) ELSE <<>>,
                                      value.value, section_type(section), idx,
                                      section_list(section), "table")>>
                  \o _extract_transactions_from_table(Tail(rows), section, idx + 1)

\* the words whose presence makes the text strategy skip a line
SkipWords ==
    { <<"d", "a", "t", "a", " ", "m", "o", "v">>,
      <<"d", "a", "t", "a", " ", "v", "a", "l", "o", "r">>,
      <<"d", "e", "s", "c", "r", "i">>,
      <<"n", "o", "t", "a", "s">>,
      <<"v", "a", "l", "o", "r">>,
      <<"t", "o", "t", "a", "l">>,
      <<"s", "e", "m", " ", "m", "o", "v", "i", "m", "e", "n", "t", "o", "s">>,
      <<"p", "á", "g", "i", "n", "a">>,
      <<"p", "a", "g", "i", "n", "a">>,
      <<"e", "m", "i", "t", "i", "d", "o", " ", "p", "o", "r">>,
      <<"t", "o", "c", "o", "n", "l", "i", "n", "e">>,
      <<"c", "r", "u", "m", "b", " ", "o", "r", "i", "g", "e", "n">>,
      <<"n", "i", "f", ":">>,
      <<"v", "a", "l", "o", "r", "e", "s", " ", "e", "m", " ", "e", "u", "r">>,
      <<"r", "e", "l", "a", "t", "ó", "r", "i", "o">>,
      <<"r", "e", "l", "a", "t", "o", "r", "i", "o">>,
      <<"r", "e", "c", "o", "n", "c", "i", "l", "i", "a">>,
      <<"m", "o", "v", "i", "m", "e", "n", "t", "o", "s", " ", "a">>,
      <<"s", "a", "l", "d", "o", " ", "d", "o">>,
      <<"d", "i", "f", "e", "r", "e", "n">> }

\* _TXN_LINE_PATTERN_ALT.match(line) or _TXN_LINE_PATTERN.match(line): two dates,
\* a description of one word or more, and a last word of digits, points and
\* commas (the first pattern asks for ",dd" at its end, the second takes any)
txn_line_match(line) ==
    LET w == split(line)
    IN  /\ Len(w) >= 4
        /\ iso_date(w[1]) /\ iso_date(w[2])
        /\ \A i \in DOMAIN w[Len(w)] : w[Len(w)][i] \in Digits \cup {".", ","}

RECURSIVE _parse_transactions_from_text(_, _, _)
_parse_transactions_from_text(lines, section, idx) ==
    IF lines = <<>> THEN <<>>
    ELSE LET line == strip(Head(lines).text)
             w == split(line)
             value == parse_portuguese_number(w[Len(w)])
         IN  IF \/ line = <<>>
                \/ \E skip \in SkipWords : contains(skip, lower(line))
                \/ ~txn_line_match(line)
                \/ value.is_none \/ value.value <= 0
             THEN _parse_transactions_from_text(Tail(lines), section, idx)
             ELSE <<ParsedTransaction(w[1], join(SubSeq(w, 3, Len(w) - 1)), value.value,
                                      section_type(section), idx,
                                      section_list(section), "text")>>
                  \o _parse_transactions_from_text(Tail(lines), section, idx + 1)

\* `row_counter += len(txns)`
next_row_counter_stuck(row_counter, found) == row_counter

next_row_counter(row_counter, found) == row_counter + Len(found)

\* the walk of a strategy: current_section (0 for None), row_counter and the
\* transactions accepted so far, in the order of acceptance
NoWalk == [current_section |-> 0, row_counter |-> 0, accepted |-> <<>>]

\* `for line in page_text.split("\n")` of strategy 1: the last header decides
RECURSIVE detect_sections(_, _)
detect_sections(lines, current_section) ==
    IF lines = <<>> THEN current_section
    ELSE detect_sections(Tail(lines),
                         IF Head(lines).section # 0 THEN Head(lines).section
                         ELSE current_section)

\* `for table in tables` of strategy 1
RECURSIVE extract_tables(_, _)
extract_tables(tables, walk) ==
    IF tables = <<>> THEN walk
    ELSE LET table == Head(tables)
             table_section == table[1].section
             current_section == IF table_section # 0 THEN table_section
                                ELSE walk.current_section
             found == IF current_section \in 2..5
                      THEN _extract_transactions_from_table(table, current_section,
                                                            walk.row_counter)
                      ELSE <<>>
         IN  IF table = <<>> THEN extract_tables(Tail(tables), walk)
             ELSE extract_tables(Tail(tables),
                     [current_section |-> current_section,
                      row_counter |-> next_row_counter(walk.row_counter, found),
                      accepted |-> walk.accepted \o found])

\* Strategy 1 over the pages
RECURSIVE table_strategy(_, _)
table_strategy(pages, walk) ==
    IF pages = <<>> THEN walk
    ELSE table_strategy(Tail(pages),
            extract_tables(Head(pages).tables,
                [walk EXCEPT !.current_section =
                                 detect_sections(Head(pages).text, walk.current_section)]))

\* strategy 2: the buffered lines of a section are parsed when the next header
\* or the end of the page is reached
flush_buffer(walk, buffer) ==
    IF buffer # <<>> /\ walk.current_section \in 2..5
    THEN LET found == _parse_transactions_from_text(buffer, walk.current_section,
                                                    walk.row_counter)
         IN  [walk EXCEPT !.row_counter = next_row_counter(walk.row_counter, found),
                          !.accepted = @ \o found]
    ELSE walk

RECURSIVE text_lines(_, _, _)
text_lines(lines, walk, buffer) ==
    IF lines = <<>> THEN flush_buffer(walk, buffer)
    ELSE IF Head(lines).section # 0
    THEN text_lines(Tail(lines),
                    [flush_buffer(walk, buffer) EXCEPT !.current_section = Head(lines).section],
                    <<>>)
    ELSE text_lines(Tail(lines), walk, Append(buffer, Head(lines)))

RECURSIVE text_strategy(_, _)
text_strategy(pages, walk) ==
    IF pages = <<>> THEN walk
    ELSE IF Head(pages).text = <<>> THEN text_strategy(Tail(pages), walk)
    ELSE text_strategy(Tail(pages), text_lines(Head(pages).text, walk, <<>>))

\* ------------------------------------------------------ pdf_parser: balances

\* re.search(r"[-]?\s*[\d.,]+\s*$", text.strip()): the digits, points and commas
\* the text ends with, the blanks before them and a "-" before these
_extract_balance_value(text) ==
    LET s == strip(text)
        numeric(i) == s[i] \in Digits \cup {".", ","}
        p == CHOOSE i \in 1..(Len(s) + 1) :
                /\ \A j \in i..Len(s) : numeric(j)
                /\ i > 1 => ~numeric(i - 1)
        b == CHOOSE i \in 1..p :
                /\ \A j \in i..(p - 1) : s[j] = " "
                /\ i > 1 => s[i - 1] # " "
        start == IF b > 1 /\ s[b - 1] = "-" THEN b - 1 ELSE b
    IN  IF p > Len(s) THEN NoNumber
        ELSE parse_portuguese_number(SubSeq(s, start, Len(s)))

NoBalances ==
    [bank_balance |-> NoNumber, reconciled_balance |-> NoNumber,
     company_balance |-> NoNumber, difference |-> NoNumber]

\* the figure a section header carries
section_balance(section) ==
    CASE section = 1 -> "bank_balance" [] section = 6 -> "reconciled_balance"
      [] section = 7 -> "company_balance" [] section = 8 -> "difference"

\* the page-by-page scan of a strategy: the header line of section 1, 6, 7 or 8
\* assigns its figure
RECURSIVE scan_lines(_, _)
scan_lines(lines, balances) ==
    IF lines = <<>> THEN balances
    ELSE scan_lines(Tail(lines),
            IF Head(lines).section \in {1, 6, 7, 8}
            THEN [balances EXCEPT ![section_balance(Head(lines).section)] =
                                      _extract_balance_value(Head(lines).text)]
            ELSE balances)

RECURSIVE scan_balances(_, _)
scan_balances(pages, balances) ==
    IF pages = <<>> THEN balances
    ELSE scan_balances(Tail(pages), scan_lines(Head(pages).text, balances))

\* the markers of the final pass
BankMarker == <<"(", "1", ")">>

ReconciledMarker == <<"(", "1", "+", "2", "-", "3", "+", "4", "-", "5", ")">>

CompanyMarker == <<"(", "7", ")">>

DifferenceMarker == <<"(", "6", "-", "7", ")">>

\* line_s.split(marker)[-1].strip(): what follows the last marker of the line
after_last(marker, line) ==
    LET at == {i \in 1..(Len(line) - Len(marker) + 1) :
                  SubSeq(line, i, i + Len(marker) - 1) = marker}
        k == CHOOSE i \in at : \A j \in at : j <= i
    IN  strip(SubSeq(line, k + Len(marker), Len(line)))

\* `if result.<figure> is None and marker in line_s:`
fill(balances, figure, marker, line) ==
    IF balances[figure].is_none /\ contains(marker, line)
    THEN [balances EXCEPT ![figure] = parse_portuguese_number(after_last(marker, line))]
    ELSE balances

RECURSIVE fill_lines(_, _)
fill_lines(lines, balances) ==
    IF lines = <<>> THEN balances
    ELSE LET line_s == strip(Head(lines).text)
         IN  fill_lines(Tail(lines),
                fill(fill(fill(fill(balances, "bank_balance", BankMarker, line_s),
                               "reconciled_balance", ReconciledMarker, line_s),
                          "company_balance", CompanyMarker, line_s),
                     "difference", DifferenceMarker, line_s))

\* full_text: the lines of all pages
RECURSIVE full_text(_)
full_text(pages) ==
    IF pages = <<>> THEN <<>> ELSE Head(pages).text \o full_text(Tail(pages))

\* `if result.bank_balance is None or result.reconciled_balance is None:`
runs_balance_pass(balances) ==
    balances.bank_balance.is_none \/ balances.reconciled_balance.is_none

\* the balances of the result: the scan (the text strategy, when it runs,
\* repeats it on the same lines), then the final pass
parse_balances(pages) ==
    LET scanned == scan_balances(pages, NoBalances)
    IN  IF runs_balance_pass(scanned) THEN fill_lines(full_text(pages), scanned)
        ELSE scanned

\* `if not result.all_transactions:` after strategy 1
runs_fallback_always(found) == TRUE

runs_fallback(found) == found = <<>>

\* parse_reconciliation_pdf on the pages pdfplumber opens: the transactions in
\* the order of acceptance, the balances, and (ghost) what each strategy
\* yielded and whether the second ran
parse_reconciliation_pdf(pages) ==
    LET first == table_strategy(pages, NoWalk).accepted
        fallback == runs_fallback(first)
        second == IF fallback THEN text_strategy(pages, NoWalk).accepted ELSE <<>>
    IN  [accepted |-> first \o second, table_yield |-> Len(first),
         text_ran |-> fallback, text_yield |-> Len(second),
         balances |-> parse_balances(pages)]

\* the four lists of the result and ReconciliationResult.all_transactions
result_list(result, list) == SelectSeq(result.accepted, LAMBDA t : t.list = list)

all_transactions(result) ==
    result_list(result, "debit_transactions") \o result_list(result, "credit_transactions")
    \o result_list(result, "company_debits") \o result_list(result, "company_credits")

\* `if not result.all_transactions:` of _handle_reconciliation_pdf: the user is
\* told that no transactions were found
reports_none(result) == all_transactions(result) = <<>>
\* ------------------------------------------- pdf_parser: Init, action, inputs

\* A document is a sequence of pages, a page a sequence of blocks: a block is a
\* section header (section 0: no header), the rows under it, whether the rows
\* are drawn as a table, and whether the header is the table's first row.
Block(section, rows, tabular, header_row) ==
    [section |-> section, rows |-> rows, tabular |-> tabular, header_row |-> header_row]

HeaderText == <<"h">>

\* page.extract_text(): the header line and one line per row, the cells that
\* are not empty separated by blanks
RECURSIVE extract_text(_)
extract_text(page) ==
    IF page = <<>> THEN <<>>
    ELSE LET block == Head(page)
         IN  (IF block.section # 0 THEN <<Line(block.section, HeaderText)>> ELSE <<>>)
             \o [i \in DOMAIN block.rows |-> Line(0, join(block.rows[i]))]
             \o extract_text(Tail(page))

\* page.extract_tables(): one table per block drawn as a table
RECURSIVE extract_tables_of(_)
extract_tables_of(page) ==
    IF page = <<>> THEN <<>>
    ELSE LET block == Head(page)
             table == (IF block.header_row /\ block.section # 0
                       THEN <<Row(block.section, <<HeaderText>>)>> ELSE <<>>)
                      \o [i \in DOMAIN block.rows |-> Row(0, block.rows[i])]
         IN  (IF block.tabular /\ table # <<>> THEN <<table>> ELSE <<>>)
             \o extract_tables_of(Tail(page))

\* pdfplumber.open(file_path).pages
open_pdf(document) ==
    [i \in DOMAIN document |->
        [text |-> extract_text(document[i]), tables |-> extract_tables_of(document[i])]]

Iso == <<"2", "0", "2", "5", "-", "0", "5", "-", "1", "6">>

Dmy == <<"1", "6", "/", "0", "5", "/", "2", "0", "2", "5">>

\* rows [date, value date, description, notes, value]: a plain one, one whose
\* amount ended up in the description cell, amounts of zero and below zero, a
\* total, a description with a stop word, a date written day first
RowOk == <<Iso, Iso, <<"p", "a", "g">>, <<>>, <<"3", "5", ",", "0", "0">>>>

RowNoValue == <<Iso, Iso, <<"p", "a", "g", " ", "3", "5", ",", "0", "0">>, <<>>, <<>>>>

RowZero == <<Iso, Iso, <<"p", "a", "g">>, <<>>, <<"0", ",", "0", "0">>>>

RowNegative == <<Iso, Iso, <<"p", "a", "g">>, <<>>, <<"-", "5", ",", "0", "0">>>>

RowTotal == <<Iso, Iso, <<"T", "o", "t", "a", "l">>, <<>>, <<"3", "5", ",", "0", "0">>>>

RowValor == <<Iso, Iso, <<"V", "a", "l", "o", "r">>, <<>>, <<"3", "5", ",", "0", "0">>>>

RowDmy == <<Dmy, Dmy, <<"p", "a", "g">>, <<>>, <<"3", "5", ",", "0", "0">>>>

BlockRows ==
    { <<>>, <<RowOk>>, <<RowOk, RowNoValue>>, <<RowNoValue>>, <<RowTotal, RowOk>>,
      <<RowZero>>, <<RowNegative>>, <<RowValor>>, <<RowDmy>>,
      <<RowOk, RowNoValue, RowOk>> }

\* blocks under no header, under the bank debits, the bank credits and the
\* company credits; a header row only in a table under a header
Blocks ==
    { Block(section, rows, tabular, header_row) :
        section \in {0, 2, 3, 5}, rows \in BlockRows, tabular \in BOOLEAN,
        header_row \in BOOLEAN } \
    { Block(section, rows, tabular, TRUE) :
        section \in {0, 2, 3, 5}, rows \in BlockRows, tabular \in {FALSE} }

\* the documents parsed: empty, one block, two blocks on a page or on two pages
ParserDocuments ==
    {<<>>}
    \cup { << <<b>> >> : b \in Blocks }
    \cup { << <<b1, b2>> >> : b1 \in Blocks, b2 \in Blocks }
    \cup { << <<b1>>, <<b2>> >> : b1 \in Blocks, b2 \in Blocks }

InitParser ==
    /\ rules = <<>>
    /\ learned = {}
    /\ txns = <<>>
    /\ api_key = FALSE
    /\ calls = <<>>
    /\ parser_in \in ParserDocuments
    /\ parser_out = None
    /\ last = Op("init", <<>>)
    /\ NoStore

ParseReconciliationPdf ==
    /\ last.op = "init"
    /\ parser_out' = parse_reconciliation_pdf(open_pdf(parser_in))
    /\ last' = Op("parse_reconciliation_pdf", <<>>)
    /\ UNCHANGED <<rules, learned, txns, api_key, calls, parser_in, committed>>
    /\ UNCHANGED session_vars

NextParser == ParseReconciliationPdf

SpecParser == InitParser /\ [][NextParser]_vars
\* the document with the same blocks and no table
Tableless(document) ==
    [i \in DOMAIN document |->
        [j \in DOMAIN document[i] |->
            [document[i][j] EXCEPT !.tabular = FALSE, !.header_row = FALSE]]]

AllTabular(document) ==
    \A i \in DOMAIN document : \A j \in DOMAIN document[i] : document[i][j].tabular

CountType(ts, type) == Len(SelectSeq(ts, LAMBDA t : t.type = type))

\* C23: for a document drawn as tables, the table strategy and the text
\* strategy on the same document without tables give the same number of
\* transactions, of debits and of credits.
C23_StrategyEquivalence ==
    (last.op = "parse_reconciliation_pdf" /\ AllTabular(parser_in)) =>
        LET structured == table_strategy(open_pdf(parser_in), NoWalk).accepted
            textual == text_strategy(open_pdf(Tableless(parser_in)), NoWalk).accepted
        IN  /\ Len(structured) = Len(textual)
            /\ CountType(structured, "debit") = CountType(textual, "debit")
            /\ CountType(structured, "credit") = CountType(textual, "credit")

\* C29: in every result the k-th accepted row has row_index k - 1, whatever the
\* section, table or page it was accepted in; so the values are distinct and
\* increase in the order of acceptance.
C29_RowIndexIncreasing ==
    last.op = "parse_reconciliation_pdf" =>
        \A k \in DOMAIN parser_out.accepted : parser_out.accepted[k].row_index = k - 1

\* C29 witness: three rows accepted from two pages and two sections
C29_Witness ==
    /\ last.op = "parse_reconciliation_pdf"
    /\ Len(parser_in) = 2
    /\ Len(parser_out.accepted) = 3
    /\ parser_out.accepted[1].list # parser_out.accepted[3].list
    /\ parser_out.accepted[3].row_index = 2

\* C30: the text strategy ran exactly when the table strategy accepted nothing
\* in the whole document; the transactions of a result all come from one
\* strategy; and the result is empty, so that "no transactions" is reported,
\* only when both strategies ran and accepted nothing.
C30_FallbackOnlyOnZero ==
    last.op = "parse_reconciliation_pdf" =>
        LET first == table_strategy(open_pdf(parser_in), NoWalk).accepted
            second == text_strategy(open_pdf(parser_in), NoWalk).accepted
            found == parser_out.accepted
        IN  /\ parser_out.text_ran <=> first = <<>>
            /\ \A i, j \in DOMAIN found : found[i].strategy = found[j].strategy
            /\ found = IF first # <<>> THEN first ELSE second
            /\ reports_none(parser_out) => first = <<>> /\ second = <<>>

\* C30 witness: a document with a table from which the table strategy accepted
\* nothing and the text strategy a row
C30_Witness ==
    /\ last.op = "parse_reconciliation_pdf"
    /\ \E i \in DOMAIN parser_in : \E j \in DOMAIN parser_in[i] : parser_in[i][j].tabular
    /\ parser_out.table_yield = 0 /\ parser_out.text_ran
    /\ parser_out.text_yield > 0
    /\ ~reports_none(parser_out)
\* C24: in every step of the rule store (add_rule through learning, the
\* increments of the categorization runs) every rule that exists keeps its id,
\* pattern, match_type, category and note template, no rule disappears, and no
\* match_count goes down.
C24_RuleImmutable ==
    [][\A i \in DOMAIN rules :
          \E j \in DOMAIN rules' :
             /\ rules'[j].id = rules[i].id
             /\ rules'[j].pattern = rules[i].pattern
             /\ rules'[j].match_type = rules[i].match_type
             /\ rules'[j].category = rules[i].category
             /\ rules'[j].note_template = rules[i].note_template
             /\ rules'[j].match_count >= rules[i].match_count]_vars

\* C24 witness: a store in which a rule has matched and, after it, a rule was
\* learned
C24_Witness ==
    /\ last.op = "apply_user_category"
    /\ \E i \in DOMAIN rules : rules[i].match_count > 0 /\ i \notin learned
    /\ \E i \in DOMAIN rules : i \in learned /\ i = Len(rules)
\* a batch run in which the rules are read again, in the persisted order, before
\* each transaction
RECURSIVE PersistedOrderLoop(_, _, _)
PersistedOrderLoop(ts, idxs, store) ==
    IF idxs = <<>> THEN [txns |-> ts, store |-> store]
    ELSE LET r == categorize_transaction(ts[Head(idxs)], get_all_rules(store), store)
         IN  PersistedOrderLoop([ts EXCEPT ![Head(idxs)] = r.txn], Tail(idxs), r.store)

\* C25: a categorize_batch run gives every transaction the category and note of
\* the first matching rule in the order by descending match_count and ascending
\* id as persisted when that transaction is evaluated, the increments for the
\* earlier transactions of the batch included.
C25_OrderWithinBatch ==
    [][last'.op = "categorize_batch" =>
         txns' = PersistedOrderLoop(txns, last'.idxs, rules).txns]_vars
BatchResponses ==
    Responses \cup
    { Response("json", <<Item("int", 0 - 1, "c1", "n1"), Item("int", 3, "c2", "n1")>>) }

\* categorize_with_ai(transactions) on a fresh list, the answers of the service
\* kept in `last`
CategorizeWithAiAnswers(oracle) ==
    LET r == categorize_with_ai(txns, api_key, oracle)
    IN  /\ last.op = "init"
        /\ txns' = r.txns
        /\ calls' = r.calls
        /\ last' = [op |-> "categorize_with_ai", idxs |-> <<>>,
                    outcome |-> IF r.raised THEN "raised" ELSE "done",
                    answers |-> oracle]
        /\ UNCHANGED <<rules, learned, api_key, parser_in, parser_out, committed>>
        /\ UNCHANGED session_vars

NextBatch == \E oracle \in Oracles(BatchResponses) : CategorizeWithAiAnswers(oracle)

SpecBatch == InitAI /\ [][NextBatch]_vars

\* a response that parses to an array of objects whose "index" is an integer or
\* is missing
Entries(response) ==
    /\ response.kind = "json"
    /\ \A k \in DOMAIN response.items :
          /\ response.items[k].shape = "dict"
          /\ response.items[k].index_type \in {"int", "none"}

\* C27: in a run of categorize_with_ai, for a batch that was answered with an
\* array of entries, a transaction of the batch ends with confidence 'ai' exactly
\* when an entry carries its index within the batch (0 <= index < batch length)
\* and is otherwise left as it was: entries without index or with an index out
\* of range change nothing, and no entry reaches into another batch.  A batch
\* whose call failed or whose answer is no JSON is not changed by the other
\* batches' answers either.
C27_IndexWithinBatch ==
    [][last'.op = "categorize_with_ai" =>
         \A b \in DOMAIN calls' :
            \A k \in DOMAIN txns :
               ((b - 1) * batch_size < k /\ k <= b * batch_size) =>
                  LET index == k - (b - 1) * batch_size - 1
                      answer == last'.answers[b]
                      hit == \E e \in DOMAIN answer.items :
                                /\ answer.items[e].index_type = "int"
                                /\ answer.items[e].index = index
                  IN  /\ Entries(answer) /\ hit => txns'[k].confidence = "ai"
                      /\ Entries(answer) /\ ~hit => txns'[k] = txns[k]
                      /\ answer.kind # "json" => txns'[k] = txns[k]]_vars

\* C27 witness: 52 transactions in three batches; the first and the second batch
\* were answered with an entry of index -1 and one of index 3, the third with an
\* entry without index and one of index 30: in the first two only the fourth
\* transaction is 'ai', the last of the batch is not, in the third none is
C27_Witness ==
    /\ last.op = "categorize_with_ai" /\ api_key
    /\ Len(txns) = 52 /\ Len(calls) = 3
    /\ {k \in DOMAIN txns : txns[k].confidence = "ai"} = {4, 29}
    /\ txns[29].category = "c2"
    /\ Len(last.answers[3].items) = 2
    /\ last.answers[3].items[2].index = 30
\* the result, the rule table and the rows sent to the service are what follows
\* from the rule pass: its store, its 'rule' transactions untouched, its
\* 'unknown' transactions sent (when the service is configured) and left
\* 'unknown' or 'ai'
SentRows(result, unknown) == [j \in DOMAIN unknown |-> result[unknown[j]].row_index]

AfterRulePass(result, rule_pass, store, sent, key) ==
    /\ store = rule_pass.store
    /\ \A k \in DOMAIN result :
          IF rule_pass.txns[k].confidence = "rule"
          THEN result[k] = rule_pass.txns[k]
          ELSE result[k].confidence \in {"unknown", "ai"}
    /\ key => sent = SentRows(result, Positions(rule_pass.txns, {"unknown"}))

\* C28: an upload that starts a review went through the stages in order: the
\* rule pass ran on every transaction of the document; the AI stage was handed
\* exactly the transactions the rule pass left 'unknown', so every transaction
\* with confidence 'rule' is as the rule pass left it; the snapshot that is
\* persisted holds the outcome of both stages; and the review then starts at the
\* first transaction that is still 'unknown'.
C28_PipelineOrder ==
    [][sessions' # sessions =>
         /\ last'.op = "handle_reconciliation_pdf"
         /\ acct_session'.current_index = 0
         /\ acct_session'.pending_review = Positions(acct_session'.result, {"unknown"})
         /\ SelectSeq(transactions', LAMBDA r : r.session_id = acct_session'.id)
               = [k \in DOMAIN acct_session'.result |->
                     transaction_row(acct_session'.id, acct_session'.result[k])]
         /\ AfterRulePass(acct_session'.result,
                          categorize_batch(LongDoc(Len(acct_session'.result)),
                                           [k \in DOMAIN acct_session'.result |-> k],
                                           rules),
                          rules', Flatten(calls'), api_key)]_vars

\* C28 witness: a saved upload in which the rule pass classified transactions,
\* the AI stage classified one of the others, some are left for the review, and
\* the persisted rows show all three
C28_Witness ==
    /\ last.op = "handle_reconciliation_pdf" /\ last.outcome = "saved"
    /\ acct_session.id # 0
    /\ acct_session.result[1].confidence = "rule"
    /\ \E k \in DOMAIN acct_session.result : acct_session.result[k].confidence = "ai"
    /\ acct_session.pending_review # <<>>
    /\ {transactions[k].categorization_method : k \in DOMAIN transactions}
          = {"rule", "ai", "unknown"}

\* C31: every transaction of a result, accepted by the table strategy or by the
\* text strategy, has a value of zero or more.
C31_NonNegativeValue ==
    last.op = "parse_reconciliation_pdf" =>
        \A k \in DOMAIN parser_out.accepted : parser_out.accepted[k].value >= 0

\* a data row whose value cell does not parse
Unparsed(row) ==
    /\ _is_data_row(row) /\ ~_is_total_row(row) /\ ~_is_sem_movimentos(row)
    /\ parse_portuguese_number(strip(row[Len(row)])).is_none

\* the document without the rows whose value cell does not parse
WithoutUnparsed(document) ==
    [i \in DOMAIN document |->
        [j \in DOMAIN document[i] |->
            [document[i][j] EXCEPT !.rows = SelectSeq(@, LAMBDA row : ~Unparsed(row))]]]

\* C32: the table strategy accepts from a document what it accepts from the
\* document without the rows whose value cell does not parse, with the same
\* row_index values: such a row ends nothing and takes no number, the rows
\* after it in its table and in later tables are accepted and numbered on.
C32_UnparsedRowSkipped ==
    last.op = "parse_reconciliation_pdf" =>
        LET structured == table_strategy(open_pdf(parser_in), NoWalk).accepted
        IN  /\ structured
                 = table_strategy(open_pdf(WithoutUnparsed(parser_in)), NoWalk).accepted
            /\ \A k \in DOMAIN structured : structured[k].row_index = k - 1

\* C32 witness: a table with an unparsed row between two good ones, followed by
\* a second table; the three good rows were accepted as 0, 1, 2
C32_Witness ==
    /\ last.op = "parse_reconciliation_pdf"
    /\ Len(parser_in) = 1 /\ Len(parser_in[1]) = 2
    /\ parser_in[1][1].tabular /\ parser_in[1][1].rows = <<RowOk, RowNoValue, RowOk>>
    /\ parser_in[1][2].tabular /\ parser_in[1][2].rows = <<RowOk>>
    /\ Len(parser_out.accepted) = 3
    /\ \A k \in 1..3 : /\ parser_out.accepted[k].strategy = "table"
                       /\ parser_out.accepted[k].row_index = k - 1

\* ------------------------------------------------ pdf_parser: balance figures

\* header lines of the sections 1, 6, 7 and 8 with a figure at their end and
\* without one, a header with a figure below zero, and lines with a marker of
\* the final pass (and with "(6-3)") followed by a figure
BalanceLines ==
    { Line(1, <<"h", " ", "5">>), Line(6, <<"h", " ", "6">>),
      Line(7, <<"h", " ", "7">>), Line(8, <<"h", " ", "8">>),
      Line(1, <<"h">>), Line(6, <<"h">>), Line(7, <<"h">>), Line(8, <<"h">>),
      Line(1, <<"h", " ", "-", " ", "5">>),
      Line(0, BankMarker \o <<" ", "1">>),
      Line(0, ReconciledMarker \o <<" ", "2">>),
      Line(0, CompanyMarker \o <<" ", "3">>),
      Line(0, DifferenceMarker \o <<" ", "4">>),
      Line(0, <<"(", "6", "-", "3", ")", " ", "9">>) }

MaxBalanceLines == 3

\* documents without tables: one page of lines, or two pages of a line each
BalanceDocuments ==
    { <<lines>> : lines \in UNION {[1..n -> BalanceLines] : n \in 0..MaxBalanceLines} }
    \cup { <<l1, l2>> : l1 \in [1..1 -> BalanceLines], l2 \in [1..1 -> BalanceLines] }

\* pdfplumber.open on a document of text lines only
open_text_pdf(document) ==
    [i \in DOMAIN document |-> [text |-> document[i], tables |-> <<>>]]

InitBalance ==
    /\ rules = <<>>
    /\ learned = {}
    /\ txns = <<>>
    /\ api_key = FALSE
    /\ calls = <<>>
    /\ parser_in \in BalanceDocuments
    /\ parser_out = None
    /\ last = Op("init", <<>>)
    /\ NoStore

ParseBalances ==
    /\ last.op = "init"
    /\ parser_out' = parse_reconciliation_pdf(open_text_pdf(parser_in))
    /\ last' = Op("parse_reconciliation_pdf", <<>>)
    /\ UNCHANGED <<rules, learned, txns, api_key, calls, parser_in, committed>>
    /\ UNCHANGED session_vars

NextBalance == ParseBalances

SpecBalance == InitBalance /\ [][NextBalance]_vars

\* the marker the specification gives for each figure
SpecifiedMarker(figure) ==
    CASE figure = "bank_balance" -> <<"(", "1", ")">>
      [] figure = "reconciled_balance" -> <<"(", "1", "+", "2", "-", "3", "+", "4", "-", "5", ")">>
      [] figure = "company_balance" -> <<"(", "7", ")">>
      [] figure = "difference" -> <<"(", "6", "-", "3", ")">>

\* the number after the marker in the first line that has the marker and a
\* number after it
RECURSIVE AfterMarker(_, _)
AfterMarker(marker, lines) ==
    IF lines = <<>> THEN NoNumber
    ELSE LET line_s == strip(Head(lines).text)
             found == IF contains(marker, line_s)
                      THEN parse_portuguese_number(after_last(marker, line_s))
                      ELSE NoNumber
         IN  IF found.is_none THEN AfterMarker(marker, Tail(lines)) ELSE found

\* C33: each of the four figures that the scan of the header lines left
\* missing is filled by the final pass from the text after its marker "(1)",
\* "(1+2-3+4-5)", "(7)", "(6-3)", and a figure the scan found stays as found.
C33_BalanceFallback ==
    last.op = "parse_reconciliation_pdf" =>
        LET pages == open_text_pdf(parser_in)
            scanned == scan_balances(pages, NoBalances)
        IN  \A figure \in DOMAIN NoBalances :
               parser_out.balances[figure] =
                  IF scanned[figure].is_none
                  THEN AfterMarker(SpecifiedMarker(figure), full_text(pages))
                  ELSE scanned[figure]

\* the specified algorithm: drop the characters outside [0-9.,\-()], negative
\* when what is left starts with "-" or "(", remove the points, turn the comma
\* into the decimal point, parse, apply the sign (None when nothing parses)
SpecifiedNumber(text) ==
    LET kept == SelectSeq(text, LAMBDA c : c \in Digits \cup {".", ",", "-", "(", ")"})
        negative == kept # <<>> /\ Head(kept) \in {"-", "("}
        decimal == to_decimal_point(keep_numeric(kept))
        val == float_value(decimal)
    IN  IF ~float_accepts(decimal) THEN NoNumber
        ELSE Number(IF negative /\ val > 0 THEN 0 - val ELSE val)

\* C37: on every text of digits, ".", ",", "-", "(", blanks and a currency
\* character parse_portuguese_number returns what the specified algorithm
\* gives, also when the currency character precedes the sign or the "(".
C37_NumberAlgorithm ==
    last.op = "parse_portuguese_number" => parser_out = SpecifiedNumber(parser_in)

\* -------------------------------------------------- the review's progress

\* the entry points of a review step: category and skip buttons, /acct_skip,
\* the skip_transaction tool
ReviewOps == {"handle_category_callback", "cmd_acct_skip", "exec_skip_transaction"}

\* C35: after every review step, through whichever entry point, the session's
\* row holds the cursor and the reviewed_count that the session has in memory.
C35_ProgressDurable ==
    [][(last'.op \in ReviewOps /\ acct_session'.id # 0)
          => \E k \in DOMAIN sessions' :
                /\ sessions'[k].id = acct_session'.id
                /\ sessions'[k].current_index = acct_session'.current_index
                /\ sessions'[k].reviewed_count = acct_session'.reviewed_count]_vars

\* C39: no review step makes the cursor of the session in memory smaller, and
\* a session whose cursor has reached the end of its pending list is not put
\* back under it by a review step.
C39_CursorNeverDecreases ==
    [][(/\ last'.op \in ReviewOps
        /\ acct_session.id # 0
        /\ acct_session'.id = acct_session.id)
          => /\ acct_session'.current_index >= acct_session.current_index
             /\ acct_session.current_index >= Len(acct_session.pending_review)
                   => acct_session'.current_index >= Len(acct_session'.pending_review)]_vars

\* C40: the session in memory always has
\* 0 <= reviewed_count <= current_index <= length of the pending list.
C40_CountCursorPending ==
    acct_session.id # 0 =>
        /\ 0 <= acct_session.reviewed_count
        /\ acct_session.reviewed_count <= acct_session.current_index
        /\ acct_session.current_index <= Len(acct_session.pending_review)

\* ------------------------------------- the review of a document with twins

\* a document with two transactions of the same date, description and value
TwinDocs ==
    { <<DocTransaction(<<"b">>, "debit_bank", 0), DocTransaction(<<"b">>, "debit_bank", 1)>> }

NextTwins ==
    \/ \E doc \in TwinDocs, a \in DocResponses :
          /\ Len(sessions) < MaxDocs
          /\ HandleReconciliationPdf(doc, CHOOSE o \in Oracles({a}) : TRUE)
    \/ \E txn_idx \in 0..1, choice \in Cats \cup {"skip"} :
          HandleCategoryCallback(txn_idx, choice)
    \/ CmdAcctSkip
    \/ ExecSkipTransaction
    \/ \E outcome \in ExportOutcomes : HandleExportCallback(outcome)
    \/ \E outcome \in ExportOutcomes : HandleAccountingExport(outcome)
    \/ \E item \in ReviewUpdateItems : HandleAccountingUpdate(item)
    \/ ShowStatus
    \/ Restart
    \/ Tick

SpecTwins == InitReview /\ [][NextTwins]_vars

\* the rows of the session in the store, in the order of their ids
SessionRows(T, session_id) == SelectSeq(T, LAMBDA r : r.session_id = session_id)

\* C34: a category button changes exactly one row of the table transactions,
\* and after every review step the k-th row of the session holds the category
\* and the confidence of the k-th transaction in memory.
C34_UpdateExactlyOne ==
    [][(last'.op \in ReviewOps /\ acct_session'.id # 0)
          => /\ (last'.outcome \in Cats /\ transactions' # transactions)
                   => Cardinality({k \in DOMAIN transactions :
                                      transactions'[k] # transactions[k]}) = 1
             /\ \A k \in DOMAIN acct_session'.result :
                   LET row == SessionRows(transactions', acct_session'.id)[k]
                       txn == acct_session'.result[k]
                   IN  /\ row.category = or_empty(txn.category)
                       /\ row.categorization_method = txn.confidence]_vars

\* -------------------------------------------- pending list: memory and store

\* the transactions of a session's pending list
PendingTransactions(session) == Pick(session.result, session.pending_review)

\* `loaded` is what load_latest_session may return; one of them is the session
\* in memory, and that one has the pending transactions of `session`
SamePending(loaded, session) ==
    /\ \E l \in loaded : l.id = session.id
    /\ \A l \in loaded :
          l.id = session.id => PendingTransactions(l) = PendingTransactions(session)

\* C38: right after an upload saved the session, load_latest_session returning
\* that session gives a pending list with the same transactions, in the same
\* order, as the pending list held in memory.
C38_PendingSameOnLoad ==
    [][(sessions' # sessions /\ last'.op = "handle_reconciliation_pdf")
          => SamePending(load_latest_session(sessions', transactions'), acct_session')]_vars

\* C38 witness: a saved upload with transactions categorized by a rule and by
\* the service, and several left pending in both lists of the document
C38_Witness ==
    /\ last.op = "handle_reconciliation_pdf" /\ last.outcome = "saved"
    /\ acct_session.id # 0
    /\ \E k \in DOMAIN acct_session.result : acct_session.result[k].confidence = "rule"
    /\ \E k \in DOMAIN acct_session.result : acct_session.result[k].confidence = "ai"
    /\ \E i, j \in DOMAIN acct_session.pending_review :
          acct_session.result[acct_session.pending_review[i]].section
             # acct_session.result[acct_session.pending_review[j]].section
    /\ SamePending(load_latest_session(sessions, transactions), acct_session)

\* ------------------------------------------- the store when a write can fail

\* The module keeps one sqlite3 connection (get_connection).  A statement that
\* writes opens a transaction on it, conn.commit() ends it; no function of the
\* store calls rollback.  `sessions` and `transactions` are what the connection
\* reads, `committed` what the database file holds.
Database(S, T) == [sessions |-> S, transactions |-> T]

\* save_full_session when its k-th INSERT INTO transactions raises: the session
\* row was replaced, the session's old transactions were deleted and k - 1 new
\* ones inserted
save_full_session_until(S, T, clock, session_id, filename, result, k) ==
    LET db == save_full_session(S, T, clock, session_id, filename, result, 0, 0)
    IN  Database(db.sessions,
                 SubSeq(db.transactions, 1, Len(db.transactions) - Len(result) + k - 1))

\* what the connection reads after the exception left save_full_session and
\* handle_pdf_upload caught it: `written` is the state with the statements that
\* ran, `file` the database file
after_exception_rolled_back(written, file) == file

after_exception(written, file) == written

InitCommit ==
    /\ rules = <<>>
    /\ learned = {}
    /\ txns = <<>>
    /\ api_key = FALSE
    /\ parser_in = None /\ parser_out = None
    /\ calls = <<>>
    /\ sessions = <<>>
    /\ transactions = <<>>
    /\ acct_session = NoSession
    /\ now = 0
    /\ committed = Database(<<>>, <<>>)
    /\ last = Op("init", <<>>)

\* save_full_session that returns: all statements, then conn.commit()
SaveFullSessionCommitted(session_id, result) ==
    LET db == save_full_session(sessions, transactions, now, session_id, "f.pdf", result, 0, 0)
    IN  /\ Len(db.transactions) <= MaxRows
        /\ sessions' = db.sessions
        /\ transactions' = db.transactions
        /\ committed' = Database(db.sessions, db.transactions)
        /\ last' = SessionOp("save_full_session", session_id, "done")
        /\ UNCHANGED <<rules, learned, txns, api_key, parser_in, parser_out, calls,
                       acct_session, now>>

\* save_full_session whose k-th INSERT raises: conn.commit() is not reached
SaveFullSessionFailed(session_id, result, k) ==
    LET written == save_full_session_until(sessions, transactions, now, session_id,
                                           "f.pdf", result, k)
        db == after_exception(written, committed)
    IN  /\ Len(written.transactions) <= MaxRows
        /\ sessions' = db.sessions
        /\ transactions' = db.transactions
        /\ last' = [op |-> "save_full_session", idxs |-> <<session_id, k>>,
                    outcome |-> "failed"]
        /\ UNCHANGED <<rules, learned, txns, api_key, parser_in, parser_out, calls,
                       acct_session, now, committed>>

\* update_session_review_state: UPDATE, then conn.commit()
UpdateSessionReviewState(session_id, current_index, reviewed_count) ==
    /\ sessions' = update_session_review_state(sessions, session_id, current_index,
                                               reviewed_count)
    /\ committed' = Database(sessions', transactions)
    /\ last' = SessionOp("update_session_review_state", session_id, "done")
    /\ UNCHANGED <<rules, learned, txns, api_key, parser_in, parser_out, calls,
                   transactions, acct_session, now>>

\* complete_session: UPDATE, then conn.commit()
CompleteSessionCommitted(session_id) ==
    /\ sessions' = complete_session(sessions, session_id)
    /\ committed' = Database(sessions', transactions)
    /\ last' = SessionOp("complete_session", session_id, "done")
    /\ UNCHANGED <<rules, learned, txns, api_key, parser_in, parser_out, calls,
                   transactions, acct_session, now>>

\* the process ends and starts again: the connection is gone with what it had
\* not committed, the new one reads the database file
ProcessRestart ==
    /\ sessions' = committed.sessions
    /\ transactions' = committed.transactions
    /\ last' = SessionOp("restart", 0, "done")
    /\ UNCHANGED <<rules, learned, txns, api_key, parser_in, parser_out, calls,
                   acct_session, now, committed>>

NextCommit ==
    \/ \E session_id \in SessionIds, result \in StoreResults :
          SaveFullSessionCommitted(session_id, result)
    \/ \E session_id \in SessionIds, result \in StoreResults, k \in 1..MaxRows :
          /\ k <= Len(result)
          /\ SaveFullSessionFailed(session_id, result, k)
    \/ \E session_id \in SessionIds, current_index \in 0..1 :
          UpdateSessionReviewState(session_id, current_index, current_index)
    \/ \E session_id \in SessionIds : CompleteSessionCommitted(session_id)
    \/ ProcessRestart

SpecCommit == InitCommit /\ [][NextCommit]_vars

\* session_id has a row that counts more transactions than the session holds
Partial(db, session_id) ==
    \E k \in DOMAIN db.sessions :
        /\ db.sessions[k].id = session_id
        /\ Len(SessionRows(db.transactions, session_id)) < db.sessions[k].total_transactions

CommitOps == {"update_session_review_state", "complete_session"}

\* C36: a save_full_session that fails at one of its inserts leaves on the
\* connection the new session row with only the transactions inserted before,
\* and the database file as it was; every later store operation that commits
\* writes to the file all the connection holds, that part included; and a
\* session that is partial in the file stays partial there until it is saved
\* again in full.
C36_SaveNotAtomic ==
    [][/\ (last'.op = "save_full_session" /\ last'.outcome = "failed")
             => /\ Partial(Database(sessions', transactions'), last'.idxs[1])
                /\ Len(SessionRows(transactions', last'.idxs[1])) = last'.idxs[2] - 1
                /\ committed' = committed
       /\ last'.op \in CommitOps
             => /\ committed' = Database(sessions', transactions')
                /\ transactions' = transactions
                /\ \A s \in SessionIds :
                      Partial(Database(sessions, transactions), s)
                         => Partial(committed', s)
       /\ \A s \in SessionIds :
             (/\ Partial(committed, s)
              /\ ~(last'.op = "save_full_session" /\ last'.outcome = "done"
                   /\ last'.idxs = <<s>>))
                => Partial(committed', s)]_vars

\* C36 witness: the database file holds a session that counts two transactions
\* and has one, committed by update_session_review_state after a failed save,
\* and the process has restarted since
C36_Witness ==
    /\ last.op = "restart"
    /\ \E k \in DOMAIN committed.sessions :
          /\ committed.sessions[k].total_transactions = 2
          /\ committed.sessions[k].current_index = 1
          /\ Len(SessionRows(committed.transactions, committed.sessions[k].id)) = 1
    /\ sessions = committed.sessions /\ transactions = committed.transactions
====
